---- MODULE Spec2Model ----
(***************************************************************************)
(* A model of the Privacy Suite proxy: the kill-switch gate, the policy    *)
(* filters, the request pipeline (plain HTTP and CONNECT), the session     *)
(* supervisor and the control interface that toggles them.                 *)
(*                                                                         *)
(* Text is modelled as sequences of one-character strings, so that the     *)
(* filters are computed on the host text the way the code computes them.   *)
(***************************************************************************)
EXTENDS Integers, Sequences, FiniteSets, TLC

(***************************************************************************)
(* Text helpers: the std::str operations the filters use.                  *)
(***************************************************************************)

\* str::starts_with
StartsWith(s, p) ==
  /\ Len(p) <= Len(s)
  /\ SubSeq(s, 1, Len(p)) = p

\* str::contains (substring search)
Contains(s, p) ==
  \E i \in 1..(Len(s) - Len(p) + 1) : SubSeq(s, i, i + Len(p) - 1) = p

UpperCase == <<"A","B","C","D","E","F","G","H","I","J","K","L","M",
               "N","O","P","Q","R","S","T","U","V","W","X","Y","Z">>

LowerCase == <<"a","b","c","d","e","f","g","h","i","j","k","l","m",
               "n","o","p","q","r","s","t","u","v","w","x","y","z">>

\* str::to_lowercase on the ASCII range
ToLower(s) ==
  [i \in 1..Len(s) |->
     IF \E k \in 1..26 : UpperCase[k] = s[i]
       THEN LowerCase[CHOOSE k \in 1..26 : UpperCase[k] = s[i]]
       ELSE s[i]]

\* str::split(c): the pieces between the occurrences of c, empty ones kept
RECURSIVE Split(_, _)
Split(s, c) ==
  IF \A i \in 1..Len(s) : s[i] # c
    THEN <<s>>
    ELSE LET k == CHOOSE i \in 1..Len(s) :
                    s[i] = c /\ \A j \in 1..(i - 1) : s[j] # c
         IN  <<SubSeq(s, 1, k - 1)>> \o Split(SubSeq(s, k + 1, Len(s)), c)

\* [&str]::join(c)
RECURSIVE Join(_, _)
Join(parts, c) ==
  IF Len(parts) = 0 THEN <<>>
  ELSE IF Len(parts) = 1 THEN parts[1]
  ELSE parts[1] \o <<c>> \o Join(Tail(parts), c)

Digits == {"0","1","2","3","4","5","6","7","8","9"}

HexDigits == Digits \cup {"a","b","c","d","e","f","A","B","C","D","E","F"}

DigitValue(d) ==
  CASE d = "0" -> 0 [] d = "1" -> 1 [] d = "2" -> 2 [] d = "3" -> 3
    [] d = "4" -> 4 [] d = "5" -> 5 [] d = "6" -> 6 [] d = "7" -> 7
    [] d = "8" -> 8 [] d = "9" -> 9

RECURSIVE DecimalValue(_)
DecimalValue(s) ==
  IF Len(s) = 0 THEN 0
  ELSE 10 * DecimalValue(SubSeq(s, 1, Len(s) - 1)) + DigitValue(s[Len(s)])

IsDecimal(s) == Len(s) > 0 /\ \A i \in 1..Len(s) : s[i] \in Digits

\* One octet of a dotted quad as Ipv4Addr::from_str reads it: one to three
\* digits, no leading zero, at most 255.
IsOctet(s) ==
  /\ IsDecimal(s)
  /\ Len(s) <= 3
  /\ (Len(s) > 1 => s[1] # "0")
  /\ DecimalValue(s) <= 255

\* host.parse::<Ipv4Addr>()
ParsesAsIpv4(s) ==
  LET parts == Split(s, ".")
  IN  Len(parts) = 4 /\ \A i \in 1..4 : IsOctet(parts[i])

IsHexGroup(s) ==
  Len(s) \in 1..4 /\ \A i \in 1..Len(s) : s[i] \in HexDigits

\* The groups of one side of an IPv6 text: the empty text has none.
GroupsOf(s) == IF Len(s) = 0 THEN <<>> ELSE Split(s, ":")

\* Groups that are all hex groups, except that the last may be a dotted quad
\* (counting for two groups).
GroupsOk(gs, quadAllowed) ==
  \A i \in 1..Len(gs) :
    \/ IsHexGroup(gs[i])
    \/ quadAllowed /\ i = Len(gs) /\ ParsesAsIpv4(gs[i])

GroupCount(gs) ==
  IF Len(gs) > 0 /\ ParsesAsIpv4(gs[Len(gs)]) THEN Len(gs) + 1 ELSE Len(gs)

\* host.parse::<Ipv6Addr>(): eight groups, or fewer around a single "::".
ParsesAsIpv6(s) ==
  LET pos == {i \in 1..(Len(s) - 1) : s[i] = ":" /\ s[i + 1] = ":"}
  IN  IF pos = {}
        THEN LET gs == GroupsOf(s)
             IN  GroupsOk(gs, TRUE) /\ GroupCount(gs) = 8
        ELSE LET k     == CHOOSE i \in pos : \A j \in pos : i <= j
                 left  == GroupsOf(SubSeq(s, 1, k - 1))
                 right == GroupsOf(SubSeq(s, k + 2, Len(s)))
             IN  /\ Cardinality(pos) = 1
                 /\ GroupsOk(left, FALSE)
                 /\ GroupsOk(right, TRUE)
                 /\ GroupCount(left) + GroupCount(right) <= 7

\* host.parse::<IpAddr>().is_ok()
ParsesAsIp(s) == ParsesAsIpv4(s) \/ ParsesAsIpv6(s)

(***************************************************************************)
(* Policy filters.                                                         *)
(***************************************************************************)

\* TrackerBlocker::new: the blocked domains
blocked_domains ==
  { <<"g","o","o","g","l","e","-","a","n","a","l","y","t","i","c","s",".","c","o","m">>,
    <<"g","o","o","g","l","e","t","a","g","m","a","n","a","g","e","r",".","c","o","m">>,
    <<"d","o","u","b","l","e","c","l","i","c","k",".","n","e","t">>,
    <<"g","o","o","g","l","e","s","y","n","d","i","c","a","t","i","o","n",".","c","o","m">>,
    <<"g","o","o","g","l","e","a","d","s","e","r","v","i","c","e","s",".","c","o","m">>,
    <<"2","m","d","n",".","n","e","t">>,
    <<"g","o","o","g","l","e","t","a","g","s","e","r","v","i","c","e","s",".","c","o","m">>,
    <<"g","o","o","g","l","e",".","c","o","m","/","a","d","s">>,
    <<"g","o","o","g","l","e",".","c","o","m","/","p","a","g","e","a","d">>,
    <<"f","a","c","e","b","o","o","k",".","c","o","m","/","t","r">>,
    <<"f","a","c","e","b","o","o","k",".","n","e","t">>,
    <<"c","o","n","n","e","c","t",".","f","a","c","e","b","o","o","k",".","n","e","t">>,
    <<"f","b","c","d","n",".","n","e","t">>,
    <<"f","a","c","e","b","o","o","k",".","c","o","m","/","p","l","u","g","i","n","s">>,
    <<"a","n","a","l","y","t","i","c","s",".","t","w","i","t","t","e","r",".","c","o","m">>,
    <<"a","d","s","-","t","w","i","t","t","e","r",".","c","o","m">>,
    <<"a","d","s","-","a","p","i",".","t","w","i","t","t","e","r",".","c","o","m">>,
    <<"s","t","a","t","i","c",".","a","d","s","-","t","w","i","t","t","e","r",".","c","o","m">>,
    <<"a","d","s",".","l","i","n","k","e","d","i","n",".","c","o","m">>,
    <<"p","x",".","a","d","s",".","l","i","n","k","e","d","i","n",".","c","o","m">>,
    <<"a","n","a","l","y","t","i","c","s",".","p","o","i","n","t","d","r","i","v","e",".","l","i","n","k","e","d","i","n",".","c","o","m">>,
    <<"a","n","a","l","y","t","i","c","s",".","t","i","k","t","o","k",".","c","o","m">>,
    <<"a","d","s",".","t","i","k","t","o","k",".","c","o","m">>,
    <<"s","c","o","r","e","c","a","r","d","r","e","s","e","a","r","c","h",".","c","o","m">>,
    <<"q","u","a","n","t","s","e","r","v","e",".","c","o","m">>,
    <<"o","m","t","r","d","c",".","n","e","t">>,
    <<"d","e","m","d","e","x",".","n","e","t">>,
    <<"2","o","7",".","n","e","t">>,
    <<"c","h","a","r","t","b","e","a","t",".","c","o","m">>,
    <<"c","h","a","r","t","b","e","a","t",".","n","e","t">>,
    <<"h","o","t","j","a","r",".","c","o","m">>,
    <<"m","o","u","s","e","f","l","o","w",".","c","o","m">>,
    <<"c","r","a","z","y","e","g","g",".","c","o","m">>,
    <<"f","u","l","l","s","t","o","r","y",".","c","o","m">>,
    <<"c","l","a","r","i","t","y",".","m","s">>,
    <<"b","i","n","g",".","c","o","m","/","f","d">>,
    <<"b","a","t",".","b","i","n","g",".","c","o","m">>,
    <<"a","m","a","z","o","n","-","a","d","s","y","s","t","e","m",".","c","o","m">>,
    <<"a","s","s","o","c","-","a","m","a","z","o","n",".","c","o","m">>,
    <<"a","d","v","e","r","t","i","s","i","n","g",".","c","o","m">>,
    <<"a","d","n","x","s",".","c","o","m">>,
    <<"p","u","b","m","a","t","i","c",".","c","o","m">>,
    <<"r","u","b","i","c","o","n","p","r","o","j","e","c","t",".","c","o","m">>,
    <<"o","p","e","n","x",".","n","e","t">>,
    <<"c","a","s","a","l","e","m","e","d","i","a",".","c","o","m">>,
    <<"c","r","i","t","e","o",".","c","o","m">>,
    <<"c","r","i","t","e","o",".","n","e","t">>,
    <<"b","i","d","s","w","i","t","c","h",".","n","e","t">>,
    <<"t","a","b","o","o","l","a",".","c","o","m">>,
    <<"o","u","t","b","r","a","i","n",".","c","o","m">>,
    <<"s","m","a","r","t","a","d","s","e","r","v","e","r",".","c","o","m">>,
    <<"a","d","f","o","r","m",".","n","e","t">>,
    <<"s","e","r","v","i","n","g","-","s","y","s",".","c","o","m">>,
    <<"m","a","t","h","t","a","g",".","c","o","m">>,
    <<"a","d","s","r","v","r",".","o","r","g">>,
    <<"b","l","u","e","k","a","i",".","c","o","m">>,
    <<"k","r","x","d",".","n","e","t">>,
    <<"e","x","e","l","a","t","o","r",".","c","o","m">>,
    <<"m","o","o","k","i","e","1",".","c","o","m">>,
    <<"a","d","d","t","h","i","s",".","c","o","m">>,
    <<"s","h","a","r","e","t","h","i","s",".","c","o","m">>,
    <<"p","i","x","e","l",".","f","a","c","e","b","o","o","k",".","c","o","m">>,
    <<"a","n","a","l","y","t","i","c","s",".","g","o","o","g","l","e",".","c","o","m">>,
    <<"s","t","a","t","s",".","g",".","d","o","u","b","l","e","c","l","i","c","k",".","n","e","t">>,
    <<"p","a","g","e","a","d","2",".","g","o","o","g","l","e","s","y","n","d","i","c","a","t","i","o","n",".","c","o","m">>,
    <<"c","d","n",".","s","e","g","m","e","n","t",".","c","o","m">>,
    <<"c","d","n",".","s","e","g","m","e","n","t",".","i","o">>,
    <<"a","p","i",".","s","e","g","m","e","n","t",".","i","o">>,
    <<"m","i","x","p","a","n","e","l",".","c","o","m">>,
    <<"a","m","p","l","i","t","u","d","e",".","c","o","m">>,
    <<"h","e","a","p",".","i","o">>,
    <<"l","o","g","g","l","y",".","c","o","m">>,
    <<"b","u","g","s","n","a","g",".","c","o","m">>,
    <<"s","e","n","t","r","y",".","i","o">> }

\* The substrings should_block looks for in the lowercased domain
tracking_substrings ==
  << <<"/","t","r">>, <<"a","n","a","l","y","t","i","c","s">>, <<"/","a","d","s">>, <<"d","o","u","b","l","e","c","l","i","c","k">>, <<"t","r","a","c","k","i","n","g">>, <<"p","i","x","e","l">> >>

\* should_block without the walk over the dot-separated suffixes
should_block_exact(domain) ==
  IF domain \in blocked_domains THEN TRUE
  ELSE \E k \in 1..Len(tracking_substrings) :
         Contains(ToLower(domain), tracking_substrings[k])

\* TrackerBlocker::should_block: exact match, a dot-separated suffix that is
\* a blocked domain, or a tracking substring in the lowercased domain.
should_block(domain) ==
  IF domain \in blocked_domains THEN TRUE
  ELSE LET parts == Split(domain, ".")
           found == \E i \in 1..Len(parts) :
                      Join(SubSeq(parts, i, Len(parts)), ".") \in blocked_domains
       IN  IF found THEN TRUE
           ELSE \E k \in 1..Len(tracking_substrings) :
                  Contains(ToLower(domain), tracking_substrings[k])

\* WebRtcProtection::should_block_request: the STUN/TURN servers it lists
stun_servers ==
  << <<"s","t","u","n",".","l",".","g","o","o","g","l","e",".","c","o","m">>,
     <<"s","t","u","n","1",".","l",".","g","o","o","g","l","e",".","c","o","m">>,
     <<"s","t","u","n","2",".","l",".","g","o","o","g","l","e",".","c","o","m">>,
     <<"s","t","u","n","3",".","l",".","g","o","o","g","l","e",".","c","o","m">>,
     <<"s","t","u","n","4",".","l",".","g","o","o","g","l","e",".","c","o","m">>,
     <<"s","t","u","n",".","c","l","o","u","d","f","l","a","r","e",".","c","o","m">>,
     <<"s","t","u","n",".","s","e","r","v","i","c","e","s",".","m","o","z","i","l","l","a",".","c","o","m">>,
     <<"s","t","u","n",".","s","t","u","n","p","r","o","t","o","c","o","l",".","o","r","g">>,
     <<"s","t","u","n",".","v","o","i","p",".","b","l","a","c","k","b","e","r","r","y",".","c","o","m">>,
     <<"s","t","u","n",".","v","o","i","p","b","u","s","t","e","r",".","c","o","m">>,
     <<"g","l","o","b","a","l",".","s","t","u","n",".","t","w","i","l","i","o",".","c","o","m">> >>

\* should_block_request looking for the STUN names on the STUN port only
should_block_request_stun_port(enabled, host, port) ==
  IF ~enabled THEN FALSE
  ELSE IF port = 3478 /\ \E k \in 1..Len(stun_servers) : Contains(host, stun_servers[k]) THEN TRUE
  ELSE ParsesAsIp(host)

\* WebRtcProtection::should_block_request(host, port)
should_block_request(enabled, host, port) ==
  IF ~enabled THEN FALSE
  ELSE IF \E k \in 1..Len(stun_servers) : Contains(host, stun_servers[k]) THEN TRUE
  ELSE ParsesAsIp(host)

\* should_block_ipv6 without the is_ipv6 test on the parsed address
should_block_ipv6_any_ip(enabled, host) ==
  IF ~enabled THEN FALSE
  ELSE IF ParsesAsIp(host) THEN TRUE
  ELSE StartsWith(host, <<"[">>) /\ Contains(host, <<":">>)

\* Ipv6Protection::should_block_ipv6(host)
should_block_ipv6(enabled, host) ==
  IF ~enabled THEN FALSE
  ELSE IF ParsesAsIpv6(host) THEN TRUE
  ELSE StartsWith(host, <<"[">>) /\ Contains(host, <<":">>)

\* Router::new builds both protections enabled
webrtc_enabled == TRUE

ipv6_enabled == TRUE

(***************************************************************************)
(* Threat tagging (Router::detect_security_risks): the rules and the       *)
(* number of them a (host, path) matches; each match is one increment of   *)
(* security_threats_detected.                                              *)
(***************************************************************************)

credential_patterns ==
  << <<"p","a","s","s","w","o","r","d">>,
     <<"p","w","d">>,
     <<"a","p","i","_","k","e","y">>,
     <<"a","p","i","k","e","y">>,
     <<"t","o","k","e","n">>,
     <<"a","c","c","e","s","s","_","t","o","k","e","n">>,
     <<"s","e","c","r","e","t">>,
     <<"p","r","i","v","a","t","e">>,
     <<"a","u","t","h">>,
     <<"s","e","s","s","i","o","n">> >>

tracking_patterns ==
  << <<"/","t","r","a","c","k">>,
     <<"/","c","o","l","l","e","c","t">>,
     <<"/","a","n","a","l","y","t","i","c","s">>,
     <<"/","b","e","a","c","o","n">>,
     <<"/","p","i","x","e","l">>,
     <<"/","i","m","p","r","e","s","s","i","o","n">>,
     <<"/","c","o","n","v","e","r","s","i","o","n">>,
     <<"/","t","e","l","e","m","e","t","r","y">>,
     <<"/","f","i","n","g","e","r","p","r","i","n","t">> >>

malicious_patterns ==
  << <<"a","n","a","l","y","t","i","c","s">>,
     <<"d","o","u","b","l","e","c","l","i","c","k">>,
     <<"a","d","s","e","r","v","e","r">>,
     <<"t","r","a","c","k","e","r">>,
     <<"m","e","t","r","i","c">>,
     <<"s","t","a","t","s">>,
     <<"t","a","g","-","m","a","n","a","g","e","r">>,
     <<"r","e","m","a","r","k","e","t","i","n","g">> >>

http_prefix == <<"h","t","t","p",":","/","/">>

\* Each rule that matches is one increment: credential and tracking rules
\* look in the lowercased path, malicious-host rules in the lowercased host.
detect_security_risks(host, path) ==
  Cardinality({k \in DOMAIN credential_patterns :
                 Contains(ToLower(path), credential_patterns[k])})
  + Cardinality({k \in DOMAIN tracking_patterns :
                   Contains(ToLower(path), tracking_patterns[k])})
  + Cardinality({k \in DOMAIN malicious_patterns :
                   Contains(ToLower(host), malicious_patterns[k])})
  + (IF StartsWith(host, http_prefix) THEN 1 ELSE 0)

(***************************************************************************)
(* The requests the model sends: hosts of plain HTTP requests (what        *)
(* Uri::host yields, brackets kept), paths, and CONNECT targets.           *)
(***************************************************************************)

H_example == <<"e","x","a","m","p","l","e",".","c","o","m">>

H_tracker == <<"g","o","o","g","l","e","-","a","n","a","l","y","t","i","c","s",".","c","o","m">>

H_stun == <<"s","t","u","n",".","l",".","g","o","o","g","l","e",".","c","o","m">>

H_ipv6 == <<"[","2","0","0","1",":","d","b","8",":",":","1","]">>

H_both == <<"[","s","t","u","n",".","l",".","g","o","o","g","l","e",".","c","o","m",":","1","]">>

P_root == <<"/">>

P_collect == <<"/","c","o","l","l","e","c","t">>

T_example == <<"e","x","a","m","p","l","e",".","c","o","m",":","4","4","3">>

T_stun == <<"s","t","u","n",".","l",".","g","o","o","g","l","e",".","c","o","m",":","3","4","7","8">>

T_ipv6 == <<"[","2","0","0","1",":","d","b","8",":",":","1","]",":","4","4","3">>

T_tracker == <<"g","o","o","g","l","e","-","a","n","a","l","y","t","i","c","s",".","c","o","m",":","4","4","3">>

\* An origin-form request has no host in its URI
NoHost == <<>>

\* The state holds a request's host, path or target as its index in these
\* lists.
HttpHosts == <<H_example, H_tracker, H_stun, H_ipv6, H_both, NoHost>>

HttpPaths == <<P_root, P_collect>>

\* Where the log is not followed the requests ask for the root path: the
\* path only decides which entries detect_security_risks logs and how many
\* threats it counts
RootPaths == {1}

ConnectTargets == <<T_example, T_stun, T_ipv6, T_tracker>>

(***************************************************************************)
(* The response bodies the proxy writes.                                   *)
(***************************************************************************)

\* routing.rs, the kill-switch branch
Body_unavailable ==
  <<"S","e","r","v","i","c","e"," ","u","n","a","v","a","i","l","a","b","l",
    "e",":"," ","P","r","i","v","a","c","y"," ","p","r","o","t","e","c","t",
    "i","o","n"," ","d","i","s","c","o","n","n","e","c","t","e","d">>

\* routing.rs, the three filter branches
Body_ipv6 ==
  <<"I","P","v","6"," ","b","l","o","c","k","e","d"," ","f","o","r"," ","p",
    "r","i","v","a","c","y"," ","p","r","o","t","e","c","t","i","o","n">>

Body_webrtc ==
  <<"W","e","b","R","T","C"," ","b","l","o","c","k","e","d"," ","f","o","r",
    " ","p","r","i","v","a","c","y"," ","p","r","o","t","e","c","t","i","o",
    "n">>

Body_tracker ==
  <<"T","r","a","c","k","e","r"," ","b","l","o","c","k","e","d"," ","b","y",
    " ","P","r","i","v","a","c","y"," ","S","u","i","t","e">>

\* proxy.rs, handle_request when route_request returned Err
Body_error ==
  <<"E","r","r","o","r"," ","p","r","o","c","e","s","s","i","n","g"," ","r",
    "e","q","u","e","s","t">>

\* tor_network.rs: what the upstream server answered (one sample)
Body_upstream ==
  <<"o","k">>

ResponseBodies ==
  <<Body_unavailable, Body_ipv6, Body_webrtc, Body_tracker, Body_error, Body_upstream>>

\* The place of a body in ResponseBodies
BodyIndex(b) == CHOOSE i \in DOMAIN ResponseBodies : ResponseBodies[i] = b

(***************************************************************************)
(* Bounds of the model.                                                    *)
(***************************************************************************)

\* Connection tasks that exist at the same time
MaxTasks == 2

\* Requests (plain HTTP and CONNECT together) a run serves
MaxRequests == 2

\* Sessions (supervisor tasks) a run starts
MaxSessions == 2

\* toggle_connection(connect = true) calls in flight at the same time
MaxCalls == 2

\* Calls of the control interface a run that follows the log buffer serves
MaxControlCalls == 3

\* Entries a run of the log buffer on its own appends
MaxAppends == 4

\* Tasks (handlers of the control interface, supervisors, connection
\* tasks) that take locks at the same time
MaxActors == 3

Tasks == 1..MaxTasks

Actors == 1..MaxActors

Calls == 1..MaxCalls

Sessions == 1..MaxSessions

(***************************************************************************)
(* State.                                                                  *)
(***************************************************************************)

VARIABLES
  stats,           \* ApiState.stats: the Stats record readers snapshot
  ctl_ks,          \* ApiState.kill_switch: the KillSwitch main() hands the control plane
  router_ks,       \* Router.kill_switch of each session's router
  proxy_handle,    \* ApiState.proxy_handle: 0 for None, else the session of the stored handle
  connected_time,  \* ApiState.connected_time is Some
  sup,             \* the supervisor task of each session
  tasks,           \* the connection tasks the accept loops spawned
  nreq,            \* requests served so far
  logs,            \* ApiState.logs: the buffer of log entries
  appended,        \* every entry add_log_with_details was ever given, in order
  system_proxy,    \* is_elevated(), whether the OS proxy setting points at the proxy, and
                   \* Stats.auto_proxy_enabled, the flag toggle_connection keeps about it
  proc,            \* where the process is on its way out: "running" until a shutdown starts
  conn,            \* the toggle_connection(connect = true) calls in flight
  ncalls,          \* calls of the control interface counted so far
  filters,         \* the policy filters on their own: enabled flags and blocked counts
  call,            \* the last call made to a policy filter and what it returned
  disc,            \* the toggle_connection(connect = false) call in flight
  now,             \* the monotonic clock, in seconds since ApiState::new (start_time)
  since,           \* the instant held by connected_time while it is Some
  reply,           \* the last Stats value the control interface returned
  fingerprint,     \* the fingerprint of each router, of each clone, and of each request sent
  toggle,          \* the toggle_kill_switch calls in flight
  lk               \* where each task stands in the lock operations of what it runs

vars == <<stats, ctl_ks, router_ks, proxy_handle, connected_time, sup, tasks, nreq,
          logs, appended, system_proxy, proc, conn, ncalls, filters, call, disc,
          now, since, reply, fingerprint, toggle, lk>>

\* What the control interface and the supervisors keep beside the data path
ctl_vars == <<logs, appended, system_proxy, proc, conn, ncalls>>

\* The policy filters called on their own, outside any session
filter_vars == <<filters, call>>

\* What is followed only where one mechanism is looked at step by step
\* The clock and what the control interface answers
clock_vars == <<now, since, reply>>

\* Calls and tasks followed step by step or lock by lock
step_vars == <<toggle, lk>>

aside_vars == <<filters, call, disc, now, since, reply, fingerprint, toggle, lk>>

\* KillSwitch::new
KillSwitch_new ==
  [tor_connected |-> FALSE, kill_switch_active |-> TRUE, blocked_requests |-> 0]

\* KillSwitch::set_tor_status
set_tor_status(ks, connected) == [ks EXCEPT !.tor_connected = connected]

\* KillSwitch::set_enabled
set_enabled(ks, enabled) == [ks EXCEPT !.kill_switch_active = enabled]

\* should_allow_traffic with the kill_switch_active test left out: the answer
\* is tor_connected alone
should_allow_traffic_tor_only(ks) ==
  IF ~ks.tor_connected
    THEN [ret |-> FALSE, ks |-> [ks EXCEPT !.blocked_requests = @ + 1]]
  ELSE [ret |-> TRUE, ks |-> ks]

\* should_allow_traffic denying without counting the denial
should_allow_traffic_uncounted(ks) ==
  [ret |-> ~ks.kill_switch_active \/ ks.tor_connected, ks |-> ks]

\* KillSwitch::should_allow_traffic: the value returned and the state left
should_allow_traffic(ks) ==
  IF ~ks.kill_switch_active THEN [ret |-> TRUE, ks |-> ks]
  ELSE IF ~ks.tor_connected
    THEN [ret |-> FALSE, ks |-> [ks EXCEPT !.blocked_requests = @ + 1]]
  ELSE [ret |-> TRUE, ks |-> ks]

\* ApiState::new: the initial Stats
Stats_new ==
  [tor_connected |-> FALSE, kill_switch_active |-> FALSE,
   requests_blocked |-> 0, trackers_blocked |-> 0, webrtc_blocked |-> 0,
   ipv6_blocked |-> 0, total_requests |-> 0, proxy_running |-> FALSE,
   security_threats_detected |-> 0]

\* Router::new: the gate a new router builds for itself
Router_new_kill_switch == set_tor_status(KillSwitch_new, TRUE)

\* A connection task that does not exist
FreeTask ==
  [pc |-> "free", sess |-> 0, host |-> 0, path |-> 0, risks |-> 0, status |-> 0, body |-> 0,
   verdict |-> "none", opened |-> FALSE, sent200 |-> FALSE, closed_by |-> "none",
   inc |-> [total |-> 0, blocked |-> 0, trackers |-> 0, webrtc |-> 0,
            ipv6 |-> 0, threats |-> 0]]

NoInc == FreeTask.inc

\* main(): the state once the control interface is up
Init ==
  /\ stats = Stats_new
  /\ ctl_ks = KillSwitch_new
  /\ router_ks = [s \in Sessions |-> KillSwitch_new]
  /\ proxy_handle = 0
  /\ connected_time = FALSE
  /\ sup = [s \in Sessions |-> [pc |-> "unborn"]]
  /\ tasks = [t \in Tasks |-> FreeTask]
  /\ nreq = 0


(***************************************************************************)
(* Log buffer (web_api.rs).                                                *)
(***************************************************************************)

\* "if logs.len() > 2000"
LogCap == 2000

LogEntry(level, message, category) ==
  [level |-> level, message |-> message, category |-> category]

\* A buffer that makes room before it pushes
PushTrimmed_trim_first(buf, entry) ==
  IF Len(buf) + 1 > LogCap - 1 THEN Append(Tail(buf), entry) ELSE Append(buf, entry)

\* add_log_with_details on the buffer: push, then drop the oldest entry if
\* the buffer holds more than 2000
PushTrimmed(buf, entry) ==
  LET pushed == Append(buf, entry)
  IN  IF Len(pushed) > LogCap THEN Tail(pushed) ELSE pushed

\* The buffer after one call per entry, in order: the first half of the
\* entries, then the second. Len(first) is looked at so that the first half
\* is worked out before the second is begun.
RECURSIVE PushAll(_, _)
PushAll(buf, entries) ==
  LET n     == Len(entries)
      half  == n \div 2
      first == PushAll(buf, SubSeq(entries, 1, half))
  IN  IF n = 0 THEN buf
      ELSE IF n = 1 THEN PushTrimmed(buf, entries[1])
      ELSE IF Len(first) = 0 THEN first
      ELSE PushAll(first, SubSeq(entries, half + 1, n))

\* ApiState::add_log / add_log_with_details called once per entry
add_log(entries) ==
  /\ logs' = PushAll(logs, entries)
  /\ appended' = appended \o entries

\* A toggle_connection call that has not started
IdleCall == [pc |-> "idle", running |-> FALSE, sess |-> 0]

\* The process before any shutdown has begun: done lists what a shutdown
\* has carried out so far
Running == [pc |-> "running", done |-> <<>>]

\* main(), up to the start of the control interface: the two entries every
\* start logs and the one that tells whether the process is elevated (the
\* entry logged later when a LAN address was found is left out)
MainLogs(elevated) ==
  << LogEntry("info", "Privacy Suite starting...", "general"),
     LogEntry("info", "Click CONNECT button to start privacy protection", "general"),
     IF elevated
       THEN LogEntry("info", "Running with administrator privileges", "general")
       ELSE LogEntry("warn", "Not running as administrator", "general") >>

\* No call has been made to a filter on its own
NoCall == [fn |-> "none", host |-> <<>>, port |-> 0, result |-> FALSE]

\* Ipv6Protection::new(true), WebRtcProtection::new(true) and
\* TrackerBlocker::new as Router::new builds them, not called on their own
FiltersIdle ==
  /\ filters = [ipv6 |-> [enabled |-> TRUE, blocked_count |-> 0],
                webrtc |-> [enabled |-> TRUE],
                tracker |-> [blocked_count |-> 0]]
  /\ call = NoCall

\* No toggle_connection(connect = false) is in flight
NoDisconnect == [pc |-> "idle", sess |-> 0, returned |-> 0, held |-> {}]

\* The control interface has returned no Stats value
NoReply ==
  [handler |-> "none", uptime_seconds |-> 0, proxy_running |-> FALSE,
   connected |-> FALSE, at |-> 0, since |-> 0]

\* The clock at start_time, connected_time None
ClockIdle ==
  /\ now = 0
  /\ since = 0
  /\ reply = NoReply

\* A router or a task that has no fingerprint (yet)
NoFingerprint == [user_agent |-> 0, accept_language |-> 0, accept_encoding |-> ""]

\* No router built, no request sent
FingerprintIdle ==
  fingerprint = [router |-> [s \in Sessions |-> NoFingerprint],
                 clone |-> [t \in Tasks |-> NoFingerprint],
                 sent |-> {}]

\* A toggle_kill_switch call that has not started
NoToggle == [pc |-> "idle", enabled |-> FALSE]

\* A task that runs nothing: prog names what it runs, at is the lock
\* operation it comes to next
Resting == [prog |-> "none", at |-> 0]

\* No toggle_kill_switch in flight, no task followed lock by lock
StepsIdle ==
  /\ toggle = [c \in Calls |-> NoToggle]
  /\ lk = [a \in Actors |-> Resting]

AsideIdle ==
  /\ FiltersIdle
  /\ disc = NoDisconnect
  /\ ClockIdle
  /\ FingerprintIdle
  /\ StepsIdle

\* The specifications of the data path do not follow the log buffer, the OS
\* proxy setting, the way out of the process or the connect calls in
\* flight: no step of a supervisor or of a connection task reads them.
DataPathOnly ==
  /\ logs = <<>>
  /\ appended = <<>>
  /\ system_proxy = [elevated |-> FALSE, enabled |-> FALSE, auto_proxy_enabled |-> FALSE]
  /\ proc = Running
  /\ conn = [c \in Calls |-> IdleCall]
  /\ ncalls = 0
  /\ AsideIdle
(***************************************************************************)
(* Control interface (web_api.rs).                                         *)
(***************************************************************************)

\* toggle_kill_switch: set_enabled on the control plane's KillSwitch, then
\* update_stats sets Stats.kill_switch_active.
ToggleKillSwitch(enabled) ==
  /\ ctl_ks' = set_enabled(ctl_ks, enabled)
  /\ stats' = [stats EXCEPT !.kill_switch_active = enabled]
  /\ UNCHANGED <<router_ks, proxy_handle, connected_time, sup, tasks, nreq>>

\* The session a new supervisor would get
NextSession == Cardinality({s \in Sessions : sup[s].pc # "unborn"}) + 1

\* A toggle_connection(connect = true) that starts a session whatever it
\* finds
Connect_unchecked ==
  /\ UNCHANGED <<stats, ctl_ks, router_ks, connected_time, tasks, nreq>>
  /\ NextSession \in Sessions
  /\ sup' = [sup EXCEPT ![NextSession] = [pc |-> "new"]]
  /\ proxy_handle' = NextSession

\* toggle_connection(connect = true): refused with a warning log while
\* proxy_running or a handle is stored; otherwise the supervisor task is
\* spawned and its handle stored.
Connect ==
  /\ UNCHANGED <<stats, ctl_ks, router_ks, connected_time, tasks, nreq>>
  /\ IF stats.proxy_running \/ proxy_handle # 0
       THEN UNCHANGED <<proxy_handle, sup>>
       ELSE /\ NextSession \in Sessions
            /\ sup' = [sup EXCEPT ![NextSession] = [pc |-> "new"]]
            /\ proxy_handle' = NextSession

\* The same call step by step, as it runs beside other calls of the control
\* interface. First the two reads of "Check if already connecting/connected":
\* proxy_running under the lock of stats, then the handle under its own.
ConnectCheckRunning(c) ==
  /\ conn[c].pc = "idle"
  /\ \A b \in 1..(c - 1) : conn[b].pc # "idle"
  /\ conn' = [conn EXCEPT ![c] = [pc |-> "check_handle",
                                  running |-> stats.proxy_running, sess |-> 0]]
  /\ UNCHANGED <<stats, ctl_ks, router_ks, proxy_handle, connected_time, sup, tasks, nreq>>

\* has_handle is read and the call is refused, or goes on to start a session
ConnectCheckHandle(c) ==
  /\ conn[c].pc = "check_handle"
  /\ conn' = [conn EXCEPT ![c] = IF conn[c].running \/ proxy_handle # 0
                                   THEN IdleCall
                                   ELSE [IdleCall EXCEPT !.pc = "start"]]
  /\ UNCHANGED <<stats, ctl_ks, router_ks, proxy_handle, connected_time, sup, tasks, nreq>>

\* Whether the call at "check_handle" is about to be refused
Refused(c) == conn[c].pc = "check_handle" /\ (conn[c].running \/ proxy_handle # 0)

\* "Start connection": after the logs, the exit country and the system
\* proxy, tokio::spawn starts the supervisor of a new session
ConnectSpawn(c) ==
  /\ conn[c].pc = "start"
  /\ NextSession \in Sessions
  /\ sup' = [sup EXCEPT ![NextSession] = [pc |-> "new"]]
  /\ conn' = [conn EXCEPT ![c] = [IdleCall EXCEPT !.pc = "store", !.sess = NextSession]]
  /\ UNCHANGED <<stats, ctl_ks, router_ks, proxy_handle, connected_time, tasks, nreq>>

\* "*state.proxy_handle.write().await = Some(handle)": a handle stored before
\* is dropped, which leaves its task running
ConnectStore(c) ==
  /\ conn[c].pc = "store"
  /\ proxy_handle' = conn[c].sess
  /\ conn' = [conn EXCEPT ![c] = IdleCall]
  /\ UNCHANGED <<stats, ctl_ks, router_ks, connected_time, sup, tasks, nreq>>

\* JoinHandle::abort on a supervisor: the task is cancelled at the await it
\* is suspended on.
Abort(sv) == [pc |-> "ended"]

\* toggle_connection(connect = false): with a stored handle, clears
\* connected_time, aborts the supervisor and clears proxy_running and
\* tor_connected; without one, only logs a warning.
Disconnect ==
  /\ UNCHANGED <<ctl_ks, router_ks, tasks, nreq>>
  /\ IF proxy_handle # 0
       THEN /\ proxy_handle' = 0
            /\ connected_time' = FALSE
            /\ sup' = [sup EXCEPT ![proxy_handle] = Abort(@)]
            /\ stats' = [stats EXCEPT !.proxy_running = FALSE,
                                      !.tor_connected = FALSE]
       ELSE UNCHANGED <<proxy_handle, connected_time, sup, stats>>

(***************************************************************************)
(* Supervisor task (the task toggle_connection spawns, then                *)
(* ProxyServer::run).                                                      *)
(***************************************************************************)

\* ProxyServer::new -> Router::new: the Tor bootstrap succeeds or fails; on
\* success the router builds its own KillSwitch and marks Tor connected.
SupNew(s, ok) ==
  /\ sup[s].pc = "new"
  /\ IF ok
       THEN /\ router_ks' = [router_ks EXCEPT ![s] = Router_new_kill_switch]
            /\ sup' = [sup EXCEPT ![s].pc = "reset"]
       ELSE /\ sup' = [sup EXCEPT ![s].pc = "ended"]
            /\ UNCHANGED router_ks
  /\ UNCHANGED <<stats, ctl_ks, proxy_handle, connected_time, tasks, nreq>>

\* "Reset counters for new session": one update_stats
SessionReset(st) ==
  [st EXCEPT !.proxy_running = TRUE, !.tor_connected = TRUE,
             !.requests_blocked = 0, !.trackers_blocked = 0,
             !.webrtc_blocked = 0, !.ipv6_blocked = 0,
             !.total_requests = 0, !.security_threats_detected = 0]

SupReset(s) ==
  /\ sup[s].pc = "reset"
  /\ stats' = SessionReset(stats)
  /\ sup' = [sup EXCEPT ![s].pc = "conn_time"]
  /\ UNCHANGED <<ctl_ks, router_ks, proxy_handle, connected_time, tasks, nreq>>

\* connected_time = Some(now)
SupConnectedTime(s) ==
  /\ sup[s].pc = "conn_time"
  /\ connected_time' = TRUE
  /\ sup' = [sup EXCEPT ![s].pc = "bind"]
  /\ UNCHANGED <<stats, ctl_ks, router_ks, proxy_handle, tasks, nreq>>

\* ProxyServer::run: TcpListener::bind succeeds (the accept loop starts) or
\* fails (run returns). Only one listener holds the port.
SupBind(s, ok) ==
  /\ sup[s].pc = "bind"
  /\ ok => \A o \in Sessions : sup[o].pc # "accept"
  /\ sup' = [sup EXCEPT ![s].pc = IF ok THEN "accept" ELSE "post_run"]
  /\ UNCHANGED <<stats, ctl_ks, router_ks, proxy_handle, connected_time, tasks, nreq>>

\* After run returned: connected_time.take()
SupPostRun(s) ==
  /\ sup[s].pc = "post_run"
  /\ connected_time' = FALSE
  /\ sup' = [sup EXCEPT ![s].pc = "post_stats"]
  /\ UNCHANGED <<stats, ctl_ks, router_ks, proxy_handle, tasks, nreq>>

\* After run returned: proxy_running and tor_connected cleared
SupPostStats(s) ==
  /\ sup[s].pc = "post_stats"
  /\ stats' = [stats EXCEPT !.proxy_running = FALSE, !.tor_connected = FALSE]
  /\ sup' = [sup EXCEPT ![s].pc = "ended"]
  /\ UNCHANGED <<ctl_ks, router_ks, proxy_handle, connected_time, tasks, nreq>>

(***************************************************************************)
(* Request pipeline (proxy.rs, routing.rs, tor_network.rs).                *)
(***************************************************************************)

Listening(s) == sup[s].pc = "accept"

\* The accept loop of ProxyServer::run: a connection is accepted, a task is
\* spawned with a clone of the session's router, and the peeked bytes decide
\* between the CONNECT path and the plain HTTP path.
AcceptHttp(s, t) ==
  /\ Listening(s)
  /\ tasks[t].pc = "free"
  /\ \A u \in 1..(t - 1) : tasks[u].pc # "free"
  /\ nreq < MaxRequests
  /\ nreq' = nreq + 1
  /\ tasks' = [tasks EXCEPT ![t] = [FreeTask EXCEPT !.pc = "gate", !.sess = s]]
  /\ UNCHANGED <<stats, ctl_ks, router_ks, proxy_handle, connected_time, sup>>

AcceptConnect(s, t) ==
  /\ Listening(s)
  /\ tasks[t].pc = "free"
  /\ \A u \in 1..(t - 1) : tasks[u].pc # "free"
  /\ nreq < MaxRequests
  /\ nreq' = nreq + 1
  /\ tasks' = [tasks EXCEPT ![t] = [FreeTask EXCEPT !.pc = "c_total", !.sess = s]]
  /\ UNCHANGED <<stats, ctl_ks, router_ks, proxy_handle, connected_time, sup>>

\* serve_connection keeps the connection once the response is written: the
\* next request on it is handled by the same task with the same router.
NextRequest(t) ==
  /\ tasks[t].pc = "keepalive"
  /\ nreq < MaxRequests
  /\ nreq' = nreq + 1
  /\ tasks' = [tasks EXCEPT ![t] = [FreeTask EXCEPT !.pc = "gate",
                                                    !.sess = tasks[t].sess]]
  /\ UNCHANGED <<stats, ctl_ks, router_ks, proxy_handle, connected_time, sup>>

\* Router::route_request, "Check kill switch first": should_allow_traffic on
\* the router's own KillSwitch.
Gate(t) ==
  LET r == should_allow_traffic(router_ks[tasks[t].sess])
  IN  /\ tasks[t].pc = "gate"
      /\ router_ks' = [router_ks EXCEPT ![tasks[t].sess] = r.ks]
      /\ tasks' = [tasks EXCEPT ![t].pc = IF r.ret THEN "total" ELSE "ks_stats",
                                ![t].verdict = IF r.ret THEN @ ELSE "killswitch"]
      /\ UNCHANGED <<stats, ctl_ks, proxy_handle, connected_time, sup, nreq>>

\* The kill-switch branch counting the block but not the threat
KillSwitchBlocked_no_threat(t) ==
  /\ tasks[t].pc = "ks_stats"
  /\ stats' = [stats EXCEPT !.requests_blocked = @ + 1]
  /\ tasks' = [tasks EXCEPT ![t].pc = "keepalive", ![t].status = 503,
                            ![t].body = BodyIndex(Body_unavailable),
                            ![t].inc.blocked = @ + 1]
  /\ UNCHANGED <<ctl_ks, router_ks, proxy_handle, connected_time, sup, nreq>>

\* The kill-switch branch: one update_stats, then the 503 response.
KillSwitchBlocked(t) ==
  /\ tasks[t].pc = "ks_stats"
  /\ stats' = [stats EXCEPT !.requests_blocked = @ + 1,
                            !.security_threats_detected = @ + 1]
  /\ tasks' = [tasks EXCEPT ![t].pc = "keepalive", ![t].status = 503,
                            ![t].body = BodyIndex(Body_unavailable),
                            ![t].inc.blocked = @ + 1, ![t].inc.threats = @ + 1]
  /\ UNCHANGED <<ctl_ks, router_ks, proxy_handle, connected_time, sup, nreq>>

\* The number of rules of detect_security_risks each (host, path) of the
\* model matches
RisksOf ==
  [h \in DOMAIN HttpHosts |->
     [p \in DOMAIN HttpPaths |-> detect_security_risks(HttpHosts[h], HttpPaths[p])]]

\* "Increment total requests"; with a host in the URI the request goes on to
\* detect_security_risks and the filters, without one straight to Tor. The
\* request's host and path are first read here, so the model draws them here.
CountTotal(t, host, path) ==
  LET nohost == HttpHosts[host] = NoHost
      n      == IF nohost THEN 0 ELSE RisksOf[host][path]
  IN  /\ tasks[t].pc = "total"
      /\ stats' = [stats EXCEPT !.total_requests = @ + 1]
      /\ tasks' = [tasks EXCEPT ![t].pc = IF nohost THEN "route"
                                          ELSE IF n > 0 THEN "risks" ELSE "filter",
                                ![t].host = host,
                                ![t].path = path,
                                ![t].risks = n,
                                ![t].verdict = IF nohost THEN "allowed" ELSE @,
                                ![t].inc.total = @ + 1]
      /\ UNCHANGED <<ctl_ks, router_ks, proxy_handle, connected_time, sup, nreq>>

\* A rule of detect_security_risks that counts its match as a block too
ThreatTagged_counts_block(t) ==
  /\ tasks[t].pc = "risks"
  /\ stats' = [stats EXCEPT !.security_threats_detected = @ + 1,
                            !.requests_blocked = @ + 1]
  /\ tasks' = [tasks EXCEPT ![t].risks = @ - 1,
                            ![t].pc = IF tasks[t].risks = 1 THEN "filter" ELSE @]
  /\ UNCHANGED <<ctl_ks, router_ks, proxy_handle, connected_time, sup, nreq>>

\* detect_security_risks: one update_stats per matching rule
ThreatTagged(t) ==
  /\ tasks[t].pc = "risks"
  /\ stats' = [stats EXCEPT !.security_threats_detected = @ + 1]
  /\ tasks' = [tasks EXCEPT ![t].risks = @ - 1,
                            ![t].pc = IF tasks[t].risks = 1 THEN "filter" ELSE @]
  /\ UNCHANGED <<ctl_ks, router_ks, proxy_handle, connected_time, sup, nreq>>

\* The filter chain with the tracker filter left out
FilterVerdict_no_tracker(host, port) ==
  IF should_block_ipv6(ipv6_enabled, host) THEN "ipv6"
  ELSE IF should_block_request(webrtc_enabled, host, port) THEN "webrtc"
  ELSE "allowed"

\* The filter chain of route_request: IPv6, then WebRTC, then tracker; the
\* first that matches decides.
FilterVerdict(host, port) ==
  IF should_block_ipv6(ipv6_enabled, host) THEN "ipv6"
  ELSE IF should_block_request(webrtc_enabled, host, port) THEN "webrtc"
  ELSE IF should_block(host) THEN "tracker"
  ELSE "allowed"

\* The branch that blocked updating its own counter and, in a second
\* update_stats that never comes, requests_blocked
BlockStats_unpaired(st, v) ==
  CASE v = "ipv6"    -> [st EXCEPT !.ipv6_blocked = @ + 1]
    [] v = "webrtc"  -> [st EXCEPT !.webrtc_blocked = @ + 1]
    [] v = "tracker" -> [st EXCEPT !.trackers_blocked = @ + 1]
    [] OTHER         -> st

\* The update_stats of the branch that blocked
BlockStats(st, v) ==
  CASE v = "ipv6"    -> [st EXCEPT !.ipv6_blocked = @ + 1, !.requests_blocked = @ + 1]
    [] v = "webrtc"  -> [st EXCEPT !.webrtc_blocked = @ + 1, !.requests_blocked = @ + 1]
    [] v = "tracker" -> [st EXCEPT !.trackers_blocked = @ + 1, !.requests_blocked = @ + 1]
    [] OTHER         -> st

\* uri.port_u16().unwrap_or(443): the model's HTTP requests name no port
DefaultPort == 443

\* The verdict of the filter chain on each host of the model
VerdictOf == [h \in DOMAIN HttpHosts |-> FilterVerdict(HttpHosts[h], DefaultPort)]

\* The body of the 403 of the branch that blocked
BlockBody(v) ==
  CASE v = "ipv6"    -> BodyIndex(Body_ipv6)
    [] v = "webrtc"  -> BodyIndex(Body_webrtc)
    [] v = "tracker" -> BodyIndex(Body_tracker)
    [] OTHER         -> 0

\* The filters of route_request and, on a block, its counters and its 403.
Filter(t) ==
  LET v == VerdictOf[tasks[t].host]
  IN  /\ tasks[t].pc = "filter"
      /\ stats' = BlockStats(stats, v)
      /\ tasks' = [tasks EXCEPT
           ![t].verdict = v,
           ![t].pc = IF v = "allowed" THEN "route" ELSE "keepalive",
           ![t].status = IF v = "allowed" THEN @ ELSE 403,
           ![t].body = BlockBody(v),
           ![t].inc.blocked = IF v = "allowed" THEN @ ELSE @ + 1,
           ![t].inc.ipv6 = IF v = "ipv6" THEN @ + 1 ELSE @,
           ![t].inc.webrtc = IF v = "webrtc" THEN @ + 1 ELSE @,
           ![t].inc.trackers = IF v = "tracker" THEN @ + 1 ELSE @]
      /\ UNCHANGED <<ctl_ks, router_ks, proxy_handle, connected_time, sup, nreq>>

\* TorNetwork::route_request and what handle_request makes of its result: a
\* URI without host fails before any stream is opened; otherwise the stream
\* is opened or not, the request written, the response read or not. Every
\* outcome reaches the client as a Response::new, status 200. A task at
\* "keepalive" holds what its last request did until the next one arrives.
RouteOutcomes == {"ok", "connect_failed", "read_failed"}

\* A transport that connects whatever the URI holds
Route_no_host_check(t, outcome) ==
  /\ tasks[t].pc = "route"
  /\ tasks' = [tasks EXCEPT ![t].pc = "keepalive", ![t].status = 200,
                            ![t].body = IF outcome = "ok" THEN BodyIndex(Body_upstream)
                                        ELSE BodyIndex(Body_error),
                            ![t].opened = (outcome # "connect_failed")]
  /\ UNCHANGED <<stats, ctl_ks, router_ks, proxy_handle, connected_time, sup, nreq>>

Route(t, outcome) ==
  /\ tasks[t].pc = "route"
  /\ HttpHosts[tasks[t].host] = NoHost => outcome = "connect_failed"
  /\ tasks' = [tasks EXCEPT ![t].pc = "keepalive", ![t].status = 200,
                            ![t].body = IF outcome = "ok" THEN BodyIndex(Body_upstream)
                                        ELSE BodyIndex(Body_error),
                            ![t].opened = (outcome # "connect_failed")]
  /\ UNCHANGED <<stats, ctl_ks, router_ks, proxy_handle, connected_time, sup, nreq>>

\* handle_connect_tunnel, up to "total_requests += 1": a request that cannot
\* be read, or whose first line names no target, ends the task before it.
ConnectCountTotal(t, wellformed) ==
  /\ tasks[t].pc = "c_total"
  /\ stats' = IF wellformed THEN [stats EXCEPT !.total_requests = @ + 1] ELSE stats
  /\ tasks' = [tasks EXCEPT ![t].pc = IF wellformed THEN "c_open" ELSE "c_closed",
                            ![t].inc.total = IF wellformed THEN @ + 1 ELSE @]
  /\ UNCHANGED <<ctl_ks, router_ks, proxy_handle, connected_time, sup, nreq>>

\* port.parse::<u16>()
ParsesAsPort(s) ==
  LET digits == IF Len(s) > 0 /\ s[1] = "+" THEN Tail(s) ELSE s
  IN  IsDecimal(digits) /\ DecimalValue(digits) <= 65535

\* "Parse host:port": exactly two pieces around ':' and a u16 port
TargetParses(target) ==
  LET hp == Split(target, ":")
  IN  Len(hp) = 2 /\ ParsesAsPort(hp[2])

\* host_port[0]
TargetHost(target) == Split(target, ":")[1]

\* Whether each CONNECT target of the model parses
TargetParsesOf == [g \in DOMAIN ConnectTargets |-> TargetParses(ConnectTargets[g])]

\* A handle_connect_tunnel that answers before it knows whether the stream
\* could be opened
ConnectOpen_always_reply(t, target, ok) ==
  /\ tasks[t].pc = "c_open"
  /\ ok => TargetParsesOf[target]
  /\ tasks' = [tasks EXCEPT ![t].pc = "c_reply",
                            ![t].host = target,
                            ![t].opened = ok,
                            ![t].verdict = IF TargetParsesOf[target]
                                             THEN "allowed" ELSE @]
  /\ UNCHANGED <<stats, ctl_ks, router_ks, proxy_handle, connected_time, sup, nreq>>

\* handle_connect_tunnel, "Parse host:port" and "Connect through Tor": a
\* target that does not parse ends the task; otherwise connect_through_tor
\* opens the stream, or fails and ends the task. The target decides nothing
\* before this point, so the model draws it here.
ConnectOpen(t, target, ok) ==
  /\ tasks[t].pc = "c_open"
  /\ ok => TargetParsesOf[target]
  /\ tasks' = [tasks EXCEPT ![t].pc = IF ok THEN "c_reply" ELSE "c_closed",
                            ![t].host = target,
                            ![t].opened = ok,
                            ![t].verdict = IF TargetParsesOf[target]
                                             THEN "allowed" ELSE @]
  /\ UNCHANGED <<stats, ctl_ks, router_ks, proxy_handle, connected_time, sup, nreq>>

\* "HTTP/1.1 200 Connection Established" is written to the client, or the
\* write fails and the task ends
ConnectReply(t, ok) ==
  /\ tasks[t].pc = "c_reply"
  /\ tasks' = [tasks EXCEPT ![t].pc = IF ok THEN "tunnel" ELSE "c_closed",
                            ![t].sent200 = ok,
                            ![t].status = IF ok THEN 200 ELSE @]
  /\ UNCHANGED <<stats, ctl_ks, router_ks, proxy_handle, connected_time, sup, nreq>>

\* The two tokio::io::copy futures of a tunnel
CopyDirections == {"client_to_tor", "tor_to_client"}

\* A tunnel that waits for both copies: the first to complete is noted and
\* the tunnel stays up until the other completes too
TunnelClosed_join(t, dir) ==
  /\ tasks[t].pc = "tunnel"
  /\ tasks[t].closed_by # dir
  /\ tasks' = [tasks EXCEPT ![t].pc = IF tasks[t].closed_by = "none"
                                        THEN "tunnel" ELSE "c_closed",
                            ![t].closed_by = dir]
  /\ UNCHANGED <<stats, ctl_ks, router_ks, proxy_handle, connected_time, sup, nreq>>

\* tokio::select! over the two copies: the copy of direction dir completes
\* or errors, its arm runs and the other copy is dropped where it stands.
TunnelClosed(t, dir) ==
  /\ tasks[t].pc = "tunnel"
  /\ tasks' = [tasks EXCEPT ![t].pc = "c_closed", ![t].closed_by = dir]
  /\ UNCHANGED <<stats, ctl_ks, router_ks, proxy_handle, connected_time, sup, nreq>>

\* The connection task ends: the client closed a kept-alive connection, or
\* handle_connect_tunnel returned.
TaskEnds(t) ==
  /\ tasks[t].pc \in {"keepalive", "c_closed"}
  /\ tasks' = [tasks EXCEPT ![t] = FreeTask]
  /\ UNCHANGED <<stats, ctl_ks, router_ks, proxy_handle, connected_time, sup, nreq>>

(***************************************************************************)
(* Specifications.                                                         *)
(***************************************************************************)

\* A step of the data path, the rest of the state not being followed
Untracked == UNCHANGED ctl_vars /\ UNCHANGED aside_vars

Control ==
  \/ \E enabled \in BOOLEAN : ToggleKillSwitch(enabled) /\ Untracked
  \/ Connect /\ Untracked
  \/ Disconnect /\ Untracked

Supervisor ==
  \E s \in Sessions :
    \/ \E ok \in BOOLEAN : SupNew(s, ok) /\ Untracked
    \/ SupReset(s) /\ Untracked
    \/ SupConnectedTime(s) /\ Untracked
    \/ \E ok \in BOOLEAN : SupBind(s, ok) /\ Untracked
    \/ SupPostRun(s) /\ Untracked
    \/ SupPostStats(s) /\ Untracked

Accepting ==
  \E s \in Sessions, t \in Tasks :
    \/ AcceptHttp(s, t) /\ Untracked
    \/ AcceptConnect(s, t) /\ Untracked

\* The steps of a connection task, the kill-switch branch apart
Pipeline ==
  \E t \in Tasks :
    \/ NextRequest(t) /\ Untracked
    \/ Gate(t) /\ Untracked
    \/ \E host \in DOMAIN HttpHosts, path \in RootPaths : CountTotal(t, host, path) /\ Untracked
    \/ ThreatTagged(t) /\ Untracked
    \/ Filter(t) /\ Untracked
    \/ \E outcome \in RouteOutcomes : Route(t, outcome) /\ Untracked
    \/ \E wellformed \in BOOLEAN : ConnectCountTotal(t, wellformed) /\ Untracked
    \/ \E target \in DOMAIN ConnectTargets, ok \in BOOLEAN : ConnectOpen(t, target, ok) /\ Untracked
    \/ \E ok \in BOOLEAN : ConnectReply(t, ok) /\ Untracked
    \/ \E dir \in CopyDirections : TunnelClosed(t, dir) /\ Untracked
    \/ TaskEnds(t) /\ Untracked

\* The program: control interface, supervisors and connection tasks. The
\* gate of a router is written once, by Router::new, and allows from then
\* on, so the kill-switch branch of route_request takes no step here.
Next == Control \/ Supervisor \/ Accepting \/ Pipeline

\* main(), followed on the data path only
InitData == Init /\ DataPathOnly

Spec == InitData /\ [][Next]_vars

\* A step that leaves the log buffer, the OS proxy setting and the way out
\* of the process unfollowed, the connect calls in flight being followed
UntrackedLogs == UNCHANGED <<logs, appended, system_proxy, proc, ncalls>> /\ UNCHANGED aside_vars

\* The control interface serving its calls concurrently: a
\* toggle_connection(connect = true) runs step by step beside the other
\* calls that start or stop a session. toggle_kill_switch, which touches
\* neither the sessions nor the counters, is left to Spec.
ControlConcurrent ==
  \/ Disconnect /\ Untracked
  \/ \E c \in Calls : ConnectCheckRunning(c) /\ UntrackedLogs
  \/ \E c \in Calls : ConnectCheckHandle(c) /\ UntrackedLogs
  \/ \E c \in Calls : ConnectSpawn(c) /\ UntrackedLogs
  \/ \E c \in Calls : ConnectStore(c) /\ UntrackedLogs

\* The accept loop with one client connection at a time
AcceptingOne ==
  \E s \in Sessions :
    \/ AcceptHttp(s, 1) /\ Untracked
    \/ AcceptConnect(s, 1) /\ Untracked

NextConcurrent == ControlConcurrent \/ Supervisor \/ AcceptingOne \/ Pipeline

\* The program with concurrent calls of the control interface, serving one
\* client connection at a time
SpecConcurrent == InitData /\ [][NextConcurrent]_vars

(***************************************************************************)
(* The log buffer on its own: add_log_with_details called with entries of   *)
(* each level, from an empty buffer and from one two entries short of full. *)
(***************************************************************************)

\* Entries of the three levels the program logs at
LogKinds ==
  << LogEntry("info", "Privacy Suite starting...", "general"),
     LogEntry("warn", "Blocked tracker", "tracker"),
     LogEntry("error", "Failed to start proxy", "general") >>

\* How many entries the buffer was given before the run is followed
LogStarts == {0, LogCap - 2}

\* The entries given before the run: the three kinds in turn
Prefill(n) == [k \in 1..n |-> LogKinds[(k % 3) + 1]]

InitLog ==
  /\ Init
  /\ system_proxy = [elevated |-> FALSE, enabled |-> FALSE, auto_proxy_enabled |-> FALSE]
  /\ proc = Running
  /\ conn = [c \in Calls |-> IdleCall]
  /\ ncalls = 0
  /\ AsideIdle
  /\ \E n \in LogStarts :
       /\ appended = Prefill(n)
       /\ logs = PushAll(<<>>, Prefill(n))

\* One call of add_log_with_details
AddLog(k) ==
  /\ \E n \in LogStarts : n <= Len(appended) /\ Len(appended) < n + MaxAppends
  /\ add_log(<<LogKinds[k]>>)
  /\ UNCHANGED <<stats, ctl_ks, router_ks, proxy_handle, connected_time, sup, tasks,
                 nreq, system_proxy, proc, conn, ncalls>>
  /\ UNCHANGED aside_vars

NextLog == \E k \in DOMAIN LogKinds : AddLog(k)

SpecLog == InitLog /\ [][NextLog]_vars

(***************************************************************************)
(* The router of one session on its own: the proxy is listening, and the   *)
(* router's KillSwitch is driven through set_tor_status and set_enabled,   *)
(* so that route_request and handle_connect_tunnel meet the gate in each   *)
(* of its states.                                                          *)
(***************************************************************************)

\* The state a first session has once its accept loop runs
InitRouter ==
  /\ stats = SessionReset(Stats_new)
  /\ ctl_ks = KillSwitch_new
  /\ router_ks = [s \in Sessions |-> IF s = 1 THEN Router_new_kill_switch
                                     ELSE KillSwitch_new]
  /\ proxy_handle = 1
  /\ connected_time = TRUE
  /\ sup = [s \in Sessions |-> [pc |-> IF s = 1 THEN "accept" ELSE "unborn"]]
  /\ tasks = [t \in Tasks |-> FreeTask]
  /\ nreq = 0
  /\ DataPathOnly

\* KillSwitch::set_tor_status on the gate of a listening router
RouterSetTorStatus(s, connected) ==
  /\ Listening(s)
  /\ router_ks' = [router_ks EXCEPT ![s] = set_tor_status(@, connected)]
  /\ UNCHANGED <<stats, ctl_ks, proxy_handle, connected_time, sup, tasks, nreq>>

\* KillSwitch::set_enabled on the gate of a listening router
RouterSetEnabled(s, enabled) ==
  /\ Listening(s)
  /\ router_ks' = [router_ks EXCEPT ![s] = set_enabled(@, enabled)]
  /\ UNCHANGED <<stats, ctl_ks, proxy_handle, connected_time, sup, tasks, nreq>>

GateDriver ==
  \E s \in Sessions :
    \/ \E connected \in BOOLEAN : RouterSetTorStatus(s, connected) /\ Untracked
    \/ \E enabled \in BOOLEAN : RouterSetEnabled(s, enabled) /\ Untracked

NextRouter ==
  \/ GateDriver
  \/ Accepting
  \/ Pipeline
  \/ \E t \in Tasks : KillSwitchBlocked(t) /\ Untracked

SpecRouter == InitRouter /\ [][NextRouter]_vars

\* What is left of handle_connect_tunnel after the select: the "tunnel
\* closed" log and the return, which drops both halves of both streams
TunnelReturns(t) == tasks[t].pc = "c_closed" /\ TaskEnds(t) /\ Untracked

\* The same router under a runtime that keeps polling a task which is ready
\* to run: a tunnel task past its select is not left suspended for ever.
\* Nothing is assumed of the peers: a copy completes when its peer closes
\* or fails, and a client may keep a connection open for ever.
SpecRouterFair == SpecRouter /\ \A t \in Tasks : WF_vars(TunnelReturns(t))


(***************************************************************************)
(* The control interface followed with its log buffer, the OS proxy        *)
(* setting and the two ways out of the process. Calls are served one at a  *)
(* time and none is made once a shutdown has begun; no client connects to  *)
(* the proxy.                                                              *)
(***************************************************************************)

Alive == proc.pc # "exited"

\* main() as the control interface comes up, elevated or not
InitControl ==
  /\ Init
  /\ \E elevated \in BOOLEAN :
       /\ system_proxy = [elevated |-> elevated, enabled |-> FALSE,
                         auto_proxy_enabled |-> FALSE]
       /\ logs = PushAll(<<>>, MainLogs(elevated))
       /\ appended = MainLogs(elevated)
  /\ proc = Running
  /\ conn = [c \in Calls |-> IdleCall]
  /\ ncalls = 0
  /\ AsideIdle

\* A call of the control interface arrives
CallStarts ==
  /\ proc.pc = "running"
  /\ ncalls < MaxControlCalls
  /\ ncalls' = ncalls + 1

\* The entry toggle_kill_switch logs
KillSwitchLog(enabled) ==
  LogEntry("info", IF enabled THEN "Kill switch ENABLED" ELSE "Kill switch DISABLED",
           "general")

\* toggle_kill_switch, with the entry it logs on every call
toggle_kill_switch(enabled) ==
  /\ CallStarts
  /\ ToggleKillSwitch(enabled)
  /\ add_log(<<KillSwitchLog(enabled)>>)
  /\ UNCHANGED <<system_proxy, proc, conn>>

\* What SystemProxy::enable or disable, called by an elevated process with
\* result ok, logs through its caller
SystemProxyLogs(done_message, failed_message, ok) ==
  IF ~system_proxy.elevated THEN <<>>
  ELSE IF ok THEN <<LogEntry("info", done_message, "general")>>
  ELSE <<LogEntry("warn", failed_message, "general")>>

\* The entries of toggle_connection(connect = true)
ConnectLogs(ok) ==
  IF stats.proxy_running \/ proxy_handle # 0
    THEN <<LogEntry("warn", "Already connected or connecting...", "general")>>
    ELSE << LogEntry("info", "Connecting to Privacy Suite...", "general"),
            LogEntry("info", "Establishing encrypted Tor connection...", "general"),
            LogEntry("info", "Exit location", "network") >>
         \o SystemProxyLogs("System proxy configured", "Failed to configure system proxy", ok)
         \o <<LogEntry("info", "Connection initiated...", "general")>>

\* toggle_connection(connect = true): the call Connect describes, with its
\* entries and, in an elevated process, SystemProxy::enable
toggle_connection_connect(ok) ==
  /\ CallStarts
  /\ ~system_proxy.elevated => ok
  /\ Connect
  /\ add_log(ConnectLogs(ok))
  /\ system_proxy' =
       IF ~(stats.proxy_running \/ proxy_handle # 0) /\ system_proxy.elevated /\ ok
         THEN [system_proxy EXCEPT !.enabled = TRUE, !.auto_proxy_enabled = TRUE]
         ELSE system_proxy
  /\ UNCHANGED <<proc, conn>>

\* The entries of toggle_connection(connect = false)
DisconnectLogs(ok) ==
  <<LogEntry("info", "Disconnecting from Privacy Suite...", "general")>>
  \o SystemProxyLogs("System proxy disabled", "Failed to disable system proxy", ok)
  \o << IF proxy_handle # 0
          THEN LogEntry("info", "Disconnected successfully", "general")
          ELSE LogEntry("warn", "No active connection to disconnect", "general") >>

\* toggle_connection(connect = false): the call Disconnect describes, with
\* its entries and, in an elevated process, SystemProxy::disable
toggle_connection_disconnect(ok) ==
  /\ CallStarts
  /\ ~system_proxy.elevated => ok
  /\ Disconnect
  /\ add_log(DisconnectLogs(ok))
  /\ system_proxy' = IF system_proxy.elevated /\ ok
                       THEN [system_proxy EXCEPT !.enabled = FALSE,
                                                 !.auto_proxy_enabled = FALSE]
                       ELSE system_proxy
  /\ UNCHANGED <<proc, conn>>

\* What a shutdown has carried out is noted in proc.done
Did(op, pc) == [pc |-> pc, done |-> Append(proc.done, op)]

\* shutdown(): "Shutdown requested from GUI" is logged
shutdown ==
  /\ CallStarts
  /\ proc' = [proc EXCEPT !.pc = "gui_kill_switch"]
  /\ add_log(<<LogEntry("info", "Shutdown requested from GUI", "general")>>)
  /\ UNCHANGED <<stats, ctl_ks, router_ks, proxy_handle, connected_time, sup, tasks,
                 nreq, system_proxy, conn>>

\* A shutdown() that leaves the kill switch as it is
ShutdownKillSwitch_skipped ==
  /\ proc.pc = "gui_kill_switch"
  /\ proc' = [proc EXCEPT !.pc = "gui_system_proxy"]
  /\ UNCHANGED <<stats, ctl_ks, router_ks, proxy_handle, connected_time, sup, tasks,
                 nreq, logs, appended, system_proxy, conn, ncalls>>

\* shutdown(), "Disable kill switch"
ShutdownKillSwitch ==
  /\ proc.pc = "gui_kill_switch"
  /\ ctl_ks' = set_enabled(ctl_ks, FALSE)
  /\ proc' = Did("kill_switch_off", "gui_system_proxy")
  /\ UNCHANGED <<stats, router_ks, proxy_handle, connected_time, sup, tasks,
                 nreq, logs, appended, system_proxy, conn, ncalls>>

\* shutdown(), "Disable system proxy": in an elevated process
\* SystemProxy::disable is called and its result dropped
ShutdownSystemProxy(ok) ==
  /\ proc.pc = "gui_system_proxy"
  /\ ~system_proxy.elevated => ok
  /\ system_proxy' = IF system_proxy.elevated /\ ok
                       THEN [system_proxy EXCEPT !.enabled = FALSE]
                       ELSE system_proxy
  /\ proc' = IF system_proxy.elevated
               THEN Did("system_proxy_restored", "gui_abort")
               ELSE [proc EXCEPT !.pc = "gui_abort"]
  /\ UNCHANGED <<stats, ctl_ks, router_ks, proxy_handle, connected_time, sup, tasks,
                 nreq, logs, appended, conn, ncalls>>

\* shutdown(), "Stop proxy": a stored handle is taken and aborted
ShutdownAbort ==
  /\ proc.pc = "gui_abort"
  /\ proxy_handle' = 0
  /\ sup' = IF proxy_handle # 0 THEN [sup EXCEPT ![proxy_handle] = Abort(@)] ELSE sup
  /\ proc' = IF proxy_handle # 0
               THEN Did("listener_aborted", "gui_exit")
               ELSE [proc EXCEPT !.pc = "gui_exit"]
  /\ UNCHANGED <<stats, ctl_ks, router_ks, connected_time, tasks,
                 nreq, logs, appended, system_proxy, conn, ncalls>>

\* The process ends: every task goes with it
Exited == [s \in Sessions |-> IF sup[s].pc = "unborn" THEN sup[s] ELSE Abort(sup[s])]

\* shutdown(), std::process::exit(0)
ShutdownExit ==
  /\ proc.pc = "gui_exit"
  /\ proc' = Did("exited", "exited")
  /\ sup' = Exited
  /\ tasks' = [t \in Tasks |-> FreeTask]
  /\ UNCHANGED <<stats, ctl_ks, router_ks, proxy_handle, connected_time,
                 nreq, logs, appended, system_proxy, conn, ncalls>>

\* main(), ctrl_c() returns: "Shutting down Privacy Suite..." is logged
CtrlC ==
  /\ proc.pc = "running"
  /\ proc' = [proc EXCEPT !.pc = "main_kill_switch"]
  /\ add_log(<<LogEntry("info", "Shutting down Privacy Suite...", "general")>>)
  /\ UNCHANGED <<stats, ctl_ks, router_ks, proxy_handle, connected_time, sup, tasks,
                 nreq, system_proxy, conn, ncalls>>

\* main(), "Disable kill switch before exiting", and its entry
MainKillSwitch ==
  /\ proc.pc = "main_kill_switch"
  /\ ctl_ks' = set_enabled(ctl_ks, FALSE)
  /\ proc' = Did("kill_switch_off", "main_system_proxy")
  /\ add_log(<<LogEntry("info", "Kill switch disabled", "general")>>)
  /\ UNCHANGED <<stats, router_ks, proxy_handle, connected_time, sup, tasks,
                 nreq, system_proxy, conn, ncalls>>

\* main(), "Restore original proxy settings if we changed them"
MainSystemProxy(ok) ==
  /\ proc.pc = "main_system_proxy"
  /\ ~system_proxy.elevated => ok
  /\ system_proxy' = IF system_proxy.elevated /\ ok
                       THEN [system_proxy EXCEPT !.enabled = FALSE]
                       ELSE system_proxy
  /\ proc' = IF system_proxy.elevated
               THEN Did("system_proxy_restored", "main_return")
               ELSE [proc EXCEPT !.pc = "main_return"]
  /\ add_log(IF system_proxy.elevated /\ ok
               THEN <<LogEntry("info", "Proxy settings restored", "general")>>
               ELSE <<>>)
  /\ UNCHANGED <<stats, ctl_ks, router_ks, proxy_handle, connected_time, sup, tasks,
                 nreq, conn, ncalls>>

\* main() returns and the runtime is dropped with every task on it
MainReturn ==
  /\ proc.pc = "main_return"
  /\ proc' = Did("exited", "exited")
  /\ sup' = Exited
  /\ tasks' = [t \in Tasks |-> FreeTask]
  /\ UNCHANGED <<stats, ctl_ks, router_ks, proxy_handle, connected_time,
                 nreq, logs, appended, system_proxy, conn, ncalls>>

\* The entries of the supervisor once ProxyServer::new has returned
SupNewLogs(ok) ==
  IF ok
    THEN << LogEntry("info", "Connected to Tor! Using 6,000+ volunteer nodes", "general"),
            LogEntry("info", "Proxy listening on all network interfaces (0.0.0.0:8888)", "network"),
            LogEntry("info", "Other devices can connect using your LAN IP:8888", "network") >>
    ELSE <<LogEntry("error", "Failed to start proxy", "general")>>

\* A step of a task, which logs entries and leaves the rest alone
TaskLogs(entries) ==
  /\ Alive
  /\ add_log(entries)
  /\ UNCHANGED <<system_proxy, proc, conn, ncalls>>

\* The control interface as a whole: its calls are taken in one step each,
\* and none calls a filter
NothingAside == UNCHANGED aside_vars

ControlLogged ==
  \/ \E enabled \in BOOLEAN : toggle_kill_switch(enabled) /\ NothingAside
  \/ \E ok \in BOOLEAN : toggle_connection_connect(ok) /\ NothingAside
  \/ \E ok \in BOOLEAN : toggle_connection_disconnect(ok) /\ NothingAside
  \/ shutdown /\ NothingAside

ShutdownPaths ==
  \/ ShutdownKillSwitch /\ NothingAside
  \/ \E ok \in BOOLEAN : ShutdownSystemProxy(ok) /\ NothingAside
  \/ ShutdownAbort /\ NothingAside
  \/ ShutdownExit /\ NothingAside
  \/ CtrlC /\ NothingAside
  \/ MainKillSwitch /\ NothingAside
  \/ \E ok \in BOOLEAN : MainSystemProxy(ok) /\ NothingAside
  \/ MainReturn /\ NothingAside

SupervisorLogged ==
  \E s \in Sessions :
    \/ \E ok \in BOOLEAN : SupNew(s, ok) /\ TaskLogs(SupNewLogs(ok)) /\ NothingAside
    \/ SupReset(s) /\ TaskLogs(<<>>) /\ NothingAside
    \/ SupConnectedTime(s)
         /\ TaskLogs(<<LogEntry("info", "All systems operational - Privacy Suite is LIVE", "general")>>)
         /\ NothingAside
    \/ \E ok \in BOOLEAN : SupBind(s, ok) /\ TaskLogs(<<>>) /\ NothingAside
    \/ SupPostRun(s) /\ TaskLogs(<<>>) /\ NothingAside
    \/ SupPostStats(s) /\ TaskLogs(<<LogEntry("info", "Proxy stopped", "general")>>) /\ NothingAside

NextControl == ControlLogged \/ ShutdownPaths \/ SupervisorLogged

SpecControl == InitControl /\ [][NextControl]_vars
(***************************************************************************)
(* The policy filters on their own: each is built, then called with hosts   *)
(* of every shape it tells apart (IPv6 and IPv4 literals, bracketed         *)
(* authorities, STUN names, blocked domains and their subdomains, names     *)
(* with a tracking substring, ordinary names, and text that is none of      *)
(* these).                                                                  *)
(***************************************************************************)

\* The hosts the filters are called with
FilterHosts ==
  << <<"2","0","0","1",":","d","b","8",":",":","1">>,
     <<":",":","1">>,
     <<"f","e","8","0",":",":","1">>,
     <<"[","2","0","0","1",":","d","b","8",":",":","1","]">>,
     <<"1","9","2",".","1","6","8",".","1",".","1">>,
     <<"8",".","8",".","8",".","8">>,
     <<"e","x","a","m","p","l","e",".","c","o","m">>,
     <<"g","o","o","g","l","e",".","c","o","m">>,
     <<"g","o","o","g","l","e","-","a","n","a","l","y","t","i","c","s",".","c","o","m">>,
     <<"w","w","w",".","g","o","o","g","l","e","-","a","n","a","l","y","t","i","c","s",".","c","o","m">>,
     <<"s","t","a","t","s",".","g","o","o","g","l","e","-","a","n","a","l","y","t","i","c","s",".","c","o","m">>,
     <<"s","t","u","n",".","l",".","g","o","o","g","l","e",".","c","o","m">>,
     <<"s","t","u","n","1",".","l",".","g","o","o","g","l","e",".","c","o","m">>,
     <<"[","s","t","u","n",".","l",".","g","o","o","g","l","e",".","c","o","m",":","1","]">>,
     <<"m","y",".","s","t","u","n",".","c","l","o","u","d","f","l","a","r","e",".","c","o","m",".","e","x","a","m","p","l","e",".","o","r","g">>,
     <<"p","i","x","e","l",".","e","x","a","m","p","l","e",".","c","o","m">>,
     <<"T","r","a","c","k","i","n","g",".","E","x","a","m","p","l","e",".","C","O","M">>,
     <<"f","a","c","e","b","o","o","k",".","n","e","t">>,
     <<"2","5","6",".","1",".","1",".","1">>,
     <<"1",":","2",":","3",":","4",":","5",":","6",":","7",":","8">>,
     <<"1",":","2",":","3",":","4",":","5",":","6",":","7">>,
     <<":",":","f","f","f","f",":","1",".","2",".","3",".","4">>,
     <<"[","a","b","c">>,
     <<"a",":","b">>,
     <<"n","o","t","h","o","t","j","a","r",".","c","o","m">>,
     <<"h","o","t","j","a","r",".","c","o","m",".","e","x","a","m","p","l","e",".","o","r","g">>,
     <<"1",".","2",".","3",".","4",".","5">>,
     <<"0","1",".","2",".","3",".","4">>,
     <<"g","o","o","g","l","e",".","c","o","m","/","a","d","s">>,
     <<>> >>

\* The ports should_block_request is called with
FilterPorts == {53, 443, 3478, 19302}

\* Labels put in front of a blocked domain to make a subdomain of it
SubdomainLabels == << <<"w","w","w">>, <<"s","t","a","t","s">>, <<"a",".","b">> >>

\* label.domain
SubdomainOf(label, domain) == label \o <<".">> \o domain

\* The subdomains of the blocked domains
Subdomains ==
  {SubdomainOf(SubdomainLabels[l], d) : l \in DOMAIN SubdomainLabels, d \in blocked_domains}

\* The domains should_block is called with
TrackerInputs == {FilterHosts[i] : i \in DOMAIN FilterHosts} \cup Subdomains

\* Calls of one filter followed before the run is cut
MaxBlockedCount == 2

\* What each filter answers on each input (computed once)
Ipv6Answers ==
  [enabled \in BOOLEAN |->
     [i \in DOMAIN FilterHosts |-> should_block_ipv6(enabled, FilterHosts[i])]]

WebrtcAnswers ==
  [enabled \in BOOLEAN |->
     [i \in DOMAIN FilterHosts |->
        [port \in FilterPorts |-> should_block_request(enabled, FilterHosts[i], port)]]]

TrackerAnswers == [domain \in TrackerInputs |-> should_block(domain)]

\* Ipv6Protection::new(enabled), WebRtcProtection::new(enabled), TrackerBlocker::new
InitFilters ==
  /\ Init
  /\ logs = <<>>
  /\ appended = <<>>
  /\ system_proxy = [elevated |-> FALSE, enabled |-> FALSE, auto_proxy_enabled |-> FALSE]
  /\ proc = Running
  /\ conn = [c \in Calls |-> IdleCall]
  /\ ncalls = 0
  /\ \E ipv6, webrtc \in BOOLEAN :
       filters = [ipv6 |-> [enabled |-> ipv6, blocked_count |-> 0],
                  webrtc |-> [enabled |-> webrtc],
                  tracker |-> [blocked_count |-> 0]]
  /\ call = NoCall
  /\ disc = NoDisconnect
  /\ ClockIdle
  /\ FingerprintIdle
  /\ StepsIdle

FiltersOnly ==
  UNCHANGED <<stats, ctl_ks, router_ks, proxy_handle, connected_time, sup, tasks, nreq,
              logs, appended, system_proxy, proc, conn, ncalls, disc>>
  /\ UNCHANGED clock_vars
  /\ UNCHANGED fingerprint
  /\ UNCHANGED step_vars

\* Ipv6Protection::should_block_ipv6(host): a block is counted
CallShouldBlockIpv6(i) ==
  LET result == Ipv6Answers[filters.ipv6.enabled][i]
  IN  /\ filters.ipv6.blocked_count < MaxBlockedCount
      /\ call' = [fn |-> "should_block_ipv6", host |-> FilterHosts[i], port |-> 0,
                  result |-> result]
      /\ filters' = [filters EXCEPT !.ipv6.blocked_count = IF result THEN @ + 1 ELSE @]
      /\ FiltersOnly

\* WebRtcProtection::should_block_request(host, port): nothing is counted
CallShouldBlockRequest(i, port) ==
  /\ call' = [fn |-> "should_block_request", host |-> FilterHosts[i], port |-> port,
              result |-> WebrtcAnswers[filters.webrtc.enabled][i][port]]
  /\ UNCHANGED filters
  /\ FiltersOnly

\* TrackerBlocker::should_block(domain): a block is counted
CallShouldBlock(domain) ==
  LET result == TrackerAnswers[domain]
  IN  /\ filters.tracker.blocked_count < MaxBlockedCount
      /\ call' = [fn |-> "should_block", host |-> domain, port |-> 0, result |-> result]
      /\ filters' = [filters EXCEPT !.tracker.blocked_count = IF result THEN @ + 1 ELSE @]
      /\ FiltersOnly

NextFilters ==
  \/ \E i \in DOMAIN FilterHosts : CallShouldBlockIpv6(i)
  \/ \E i \in DOMAIN FilterHosts, port \in FilterPorts : CallShouldBlockRequest(i, port)
  \/ \E domain \in TrackerInputs : CallShouldBlock(domain)

SpecFilters == InitFilters /\ [][NextFilters]_vars

(***************************************************************************)
(* toggle_connection(connect = false) step by step, beside the start-up    *)
(* of the supervisor it aborts.                                            *)
(***************************************************************************)

\* Neither the control variables nor the filters are followed here
Unlogged ==
  UNCHANGED ctl_vars /\ UNCHANGED filter_vars /\ UNCHANGED clock_vars /\ UNCHANGED fingerprint
  /\ UNCHANGED step_vars

\* proxy_handle.write().await.take(): with a handle the call goes on, and
\* the write guard of the handle, a temporary of the `if let`, lives to the
\* end of its block; without a handle the call logs a warning and returns
DisconnectTake ==
  /\ disc.pc = "idle"
  /\ IF proxy_handle # 0
       THEN /\ disc' = [disc EXCEPT !.pc = "clear", !.sess = proxy_handle,
                                    !.held = {"proxy_handle"}]
            /\ proxy_handle' = 0
       ELSE UNCHANGED <<disc, proxy_handle>>
  /\ UNCHANGED <<stats, ctl_ks, router_ks, connected_time, sup, tasks, nreq>>

\* *connected_time.write().await = None
DisconnectClear ==
  /\ disc.pc = "clear"
  /\ connected_time' = FALSE
  /\ disc' = [disc EXCEPT !.pc = "abort"]
  /\ UNCHANGED <<stats, ctl_ks, router_ks, proxy_handle, sup, tasks, nreq>>

\* handle.abort()
DisconnectAbort ==
  /\ disc.pc = "abort"
  /\ sup' = [sup EXCEPT ![disc.sess] = Abort(@)]
  /\ disc' = [disc EXCEPT !.pc = "stats"]
  /\ UNCHANGED <<stats, ctl_ks, router_ks, proxy_handle, connected_time, tasks, nreq>>

\* update_stats, first half: stats.write().await, then the closure clears
\* proxy_running and tor_connected; the guard is kept
DisconnectStats ==
  /\ disc.pc = "stats"
  /\ stats' = [stats EXCEPT !.proxy_running = FALSE, !.tor_connected = FALSE]
  /\ disc' = [disc EXCEPT !.pc = "uptime", !.held = @ \cup {"stats"}]
  /\ UNCHANGED <<ctl_ks, router_ks, proxy_handle, connected_time, sup, tasks, nreq>>

\* update_stats, second half: connected_time.read().await for the uptime,
\* then the guard of stats is dropped; the call logs, leaves the block
\* (dropping the guard of the handle) and returns
DisconnectReturn ==
  /\ disc.pc = "uptime"
  /\ disc' = [pc |-> "idle", sess |-> 0, returned |-> disc.sess, held |-> {}]
  /\ UNCHANGED <<stats, ctl_ks, router_ks, proxy_handle, connected_time, sup, tasks, nreq>>

\* toggle_connection(connect = true) waits for the lock of the handle while a
\* disconnect holds it
ConnectAfterDisconnect ==
  /\ disc.pc = "idle"
  /\ Connect
  /\ UNCHANGED disc

\* A writer of Stats waits while the disconnect holds the lock of stats
StatsFree == "stats" \notin disc.held

ControlStepwise ==
  \/ ConnectAfterDisconnect /\ Unlogged
  \/ DisconnectTake /\ Unlogged
  \/ DisconnectClear /\ Unlogged
  \/ DisconnectAbort /\ Unlogged
  \/ DisconnectStats /\ Unlogged
  \/ DisconnectReturn /\ Unlogged
  \/ \E enabled \in BOOLEAN : StatsFree /\ ToggleKillSwitch(enabled) /\ Untracked

SupervisorBeside ==
  \E s \in Sessions :
    \/ \E ok \in BOOLEAN : SupNew(s, ok) /\ Untracked
    \/ StatsFree /\ SupReset(s) /\ Untracked
    \/ SupConnectedTime(s) /\ Untracked
    \/ \E ok \in BOOLEAN : SupBind(s, ok) /\ Untracked
    \/ SupPostRun(s) /\ Untracked
    \/ StatsFree /\ SupPostStats(s) /\ Untracked

NextDisconnect == ControlStepwise \/ SupervisorBeside

SpecDisconnect == InitData /\ [][NextDisconnect]_vars

(***************************************************************************)
(* The clock, and the Stats values the control interface returns. Time is  *)
(* counted in whole seconds from start_time, as Duration::as_secs counts.  *)
(***************************************************************************)

\* Seconds followed before the run is cut
MaxTime == 3

\* connected_since.elapsed().as_secs() when connected_time is Some, else 0
SessionUptime == IF connected_time THEN now - since ELSE 0

\* state.start_time.elapsed().as_secs()
ProcessUptime == now

\* state.stats.read().await.clone() with uptime_seconds overwritten
Answer(handler, st, connected, uptime) ==
  [handler |-> handler, uptime_seconds |-> uptime, proxy_running |-> st.proxy_running,
   connected |-> connected, at |-> now, since |-> since]

\* What the handlers below leave alone
AnswerOnly ==
  UNCHANGED ctl_vars /\ UNCHANGED filter_vars /\ UNCHANGED disc /\ UNCHANGED fingerprint
  /\ UNCHANGED step_vars

\* One second passes
Tick ==
  /\ now < MaxTime
  /\ now' = now + 1
  /\ UNCHANGED <<stats, ctl_ks, router_ks, proxy_handle, connected_time, sup, tasks, nreq,
                 since, reply>>
  /\ AnswerOnly

\* GET /api/stats
get_stats ==
  /\ reply' = Answer("get_stats", stats, connected_time, SessionUptime)
  /\ UNCHANGED <<stats, ctl_ks, router_ks, proxy_handle, connected_time, sup, tasks, nreq,
                 now, since>>
  /\ AnswerOnly

\* toggle_kill_switch with the value it returns
toggle_kill_switch_answered(enabled) ==
  /\ ToggleKillSwitch(enabled)
  /\ reply' = Answer("toggle_kill_switch", stats', connected_time, SessionUptime)
  /\ UNCHANGED <<now, since>>
  /\ AnswerOnly

\* change_exit_country with the value it returns (the exit country itself
\* is a preference for the next connection)
change_exit_country ==
  /\ reply' = Answer("change_exit_country", stats, connected_time, SessionUptime)
  /\ UNCHANGED <<stats, ctl_ks, router_ks, proxy_handle, connected_time, sup, tasks, nreq,
                 now, since>>
  /\ AnswerOnly

\* toggle_connection(connect = true) with the value it returns: the refused
\* branch answers with the uptime of the session, the other with the time
\* since start_time
toggle_connection_connect_answered ==
  /\ Connect
  /\ reply' = IF stats.proxy_running \/ proxy_handle # 0
                THEN Answer("toggle_connection", stats, connected_time, SessionUptime)
                ELSE Answer("toggle_connection", stats, connected_time, ProcessUptime)
  /\ UNCHANGED <<now, since>>
  /\ AnswerOnly

\* toggle_connection(connect = false) with the value it returns
toggle_connection_disconnect_answered ==
  /\ Disconnect
  /\ reply' = Answer("toggle_connection", stats', connected_time', ProcessUptime)
  /\ UNCHANGED <<now, since>>
  /\ AnswerOnly

ControlAnswered ==
  \/ get_stats
  \/ \E enabled \in BOOLEAN : toggle_kill_switch_answered(enabled)
  \/ change_exit_country
  \/ toggle_connection_connect_answered
  \/ toggle_connection_disconnect_answered

\* The supervisor on the clock: connected_time = Some(Instant::now())
SupervisorTimed ==
  \E s \in Sessions :
    \/ \E ok \in BOOLEAN : SupNew(s, ok) /\ UNCHANGED clock_vars /\ AnswerOnly
    \/ SupReset(s) /\ UNCHANGED clock_vars /\ AnswerOnly
    \/ SupConnectedTime(s) /\ since' = now /\ UNCHANGED <<now, reply>> /\ AnswerOnly
    \/ \E ok \in BOOLEAN : SupBind(s, ok) /\ UNCHANGED clock_vars /\ AnswerOnly
    \/ SupPostRun(s) /\ UNCHANGED clock_vars /\ AnswerOnly
    \/ SupPostStats(s) /\ UNCHANGED clock_vars /\ AnswerOnly

NextUptime == Tick \/ ControlAnswered \/ SupervisorTimed

SpecUptime == InitData /\ [][NextUptime]_vars

(***************************************************************************)
(* The browser fingerprint: BrowserFingerprint::random picks one when a    *)
(* router is built, every connection task works on a clone of the router,  *)
(* and TorNetwork::route_request writes the request with the headers of    *)
(* the fingerprint it is given. The fingerprint is followed by the index   *)
(* of its user agent and of its language in the lists of random().         *)
(***************************************************************************)

\* user_agents.len()
UserAgentCount == 5

\* languages.len()
LanguageCount == 3

\* What BrowserFingerprint::random can return
Fingerprints ==
  [user_agent : 1..UserAgentCount, accept_language : 1..LanguageCount,
   accept_encoding : {"gzip, deflate, br"}]

\* A clone that starts from the first entries of the lists
RouterClone_first(fp) ==
  [user_agent |-> 1, accept_language |-> 1, accept_encoding |-> "gzip, deflate, br"]

\* Router::clone, for the fingerprint: #[derive(Clone)] copies the fields
RouterClone(fp) == fp

\* What the steps below leave alone
FingerprintOnly ==
  UNCHANGED ctl_vars /\ UNCHANGED filter_vars /\ UNCHANGED disc /\ UNCHANGED clock_vars
  /\ UNCHANGED step_vars

\* Router::new inside ProxyServer::new: the fingerprint is drawn
SupNewFingerprint(s, ok) ==
  /\ SupNew(s, ok)
  /\ IF ok
       THEN \E fp \in Fingerprints :
              fingerprint' = [fingerprint EXCEPT !.router[s] = fp]
       ELSE UNCHANGED fingerprint

\* The accept loop hands the task a clone of the router
AcceptHttpClone(s, t) ==
  /\ AcceptHttp(s, t)
  /\ fingerprint' = [fingerprint EXCEPT !.clone[t] = RouterClone(fingerprint.router[s])]

\* route_request: unless the stream could not be opened, the request goes
\* out with the headers of the task's fingerprint
RouteSends(t, outcome) ==
  /\ Route(t, outcome)
  /\ fingerprint' =
       IF outcome = "connect_failed" THEN fingerprint
       ELSE [fingerprint EXCEPT
               !.sent = @ \cup {[sess |-> tasks[t].sess, headers |-> fingerprint.clone[t]]}]

\* The task is over and its clone dropped
TaskEndsClone(t) ==
  /\ TaskEnds(t)
  /\ fingerprint' = [fingerprint EXCEPT !.clone[t] = NoFingerprint]

\* One session is followed, from the set_connection(true) that starts it
ConnectFirst ==
  /\ NextSession = 1
  /\ Connect

ControlFingerprint ==
  \/ ConnectFirst /\ UNCHANGED fingerprint /\ FingerprintOnly
  \/ Disconnect /\ UNCHANGED fingerprint /\ FingerprintOnly

SupervisorFingerprint ==
  \E s \in Sessions :
    \/ \E ok \in BOOLEAN : SupNewFingerprint(s, ok) /\ FingerprintOnly
    \/ SupReset(s) /\ UNCHANGED fingerprint /\ FingerprintOnly
    \/ SupConnectedTime(s) /\ UNCHANGED fingerprint /\ FingerprintOnly
    \/ \E ok \in BOOLEAN : SupBind(s, ok) /\ UNCHANGED fingerprint /\ FingerprintOnly
    \/ SupPostRun(s) /\ UNCHANGED fingerprint /\ FingerprintOnly
    \/ SupPostStats(s) /\ UNCHANGED fingerprint /\ FingerprintOnly

PipelineFingerprint ==
  \E t \in Tasks :
    \/ \E s \in Sessions : AcceptHttpClone(s, t) /\ FingerprintOnly
    \/ NextRequest(t) /\ UNCHANGED fingerprint /\ FingerprintOnly
    \/ Gate(t) /\ UNCHANGED fingerprint /\ FingerprintOnly
    \/ \E host \in DOMAIN HttpHosts, path \in RootPaths :
         CountTotal(t, host, path) /\ UNCHANGED fingerprint /\ FingerprintOnly
    \/ ThreatTagged(t) /\ UNCHANGED fingerprint /\ FingerprintOnly
    \/ Filter(t) /\ UNCHANGED fingerprint /\ FingerprintOnly
    \/ \E outcome \in RouteOutcomes : RouteSends(t, outcome) /\ FingerprintOnly
    \/ TaskEndsClone(t) /\ FingerprintOnly

NextFingerprint == ControlFingerprint \/ SupervisorFingerprint \/ PipelineFingerprint

SpecFingerprint == InitData /\ [][NextFingerprint]_vars

(***************************************************************************)
(* The plain HTTP path with the entries it logs: one session is listening, *)
(* connections are served one at a time, and every step appends what the   *)
(* code logs at that point.                                                *)
(***************************************************************************)

\* What has been logged by the time the accept loop of a first session runs
StartupLogs ==
  MainLogs(FALSE)
  \o << LogEntry("info", "Connecting to Privacy Suite...", "general"),
        LogEntry("info", "Establishing encrypted Tor connection...", "general"),
        LogEntry("info", "Exit location", "network"),
        LogEntry("info", "Connection initiated...", "general") >>
  \o SupNewLogs(TRUE)
  \o <<LogEntry("info", "All systems operational - Privacy Suite is LIVE", "general")>>

InitRequestLog ==
  /\ stats = SessionReset(Stats_new)
  /\ ctl_ks = KillSwitch_new
  /\ router_ks = [s \in Sessions |-> IF s = 1 THEN Router_new_kill_switch
                                     ELSE KillSwitch_new]
  /\ proxy_handle = 1
  /\ connected_time = TRUE
  /\ sup = [s \in Sessions |-> [pc |-> IF s = 1 THEN "accept" ELSE "unborn"]]
  /\ tasks = [t \in Tasks |-> FreeTask]
  /\ nreq = 0
  /\ logs = PushAll(<<>>, StartupLogs)
  /\ appended = StartupLogs
  /\ system_proxy = [elevated |-> FALSE, enabled |-> FALSE, auto_proxy_enabled |-> FALSE]
  /\ proc = Running
  /\ conn = [c \in Calls |-> IdleCall]
  /\ ncalls = 0
  /\ AsideIdle

\* n times the entry e
Repeated(n, e) == [i \in 1..n |-> e]

\* How many of the patterns the lowercased text contains
Matches(patterns, text) ==
  Cardinality({k \in DOMAIN patterns : Contains(ToLower(text), patterns[k])})

\* The entries detect_security_risks logs, in its order: credential rules,
\* tracking-path rules, malicious-host rules, then the http:// rule
RiskLogs(host, path) ==
  Repeated(Matches(credential_patterns, path),
           LogEntry("error", "SECURITY: sensitive data in URL", "security"))
  \o Repeated(Matches(tracking_patterns, path),
              LogEntry("warn", "Tracking endpoint detected", "security"))
  \o Repeated(Matches(malicious_patterns, host),
              LogEntry("info", "Tracking service detected", "security"))
  \o Repeated(IF StartsWith(host, http_prefix) THEN 1 ELSE 0,
              LogEntry("warn", "Unencrypted HTTP", "security"))

\* The entries of each (host, path) of the model
RiskLogsOf ==
  [h \in DOMAIN HttpHosts |->
     [p \in DOMAIN HttpPaths |-> RiskLogs(HttpHosts[h], HttpPaths[p])]]

\* The entry of the branch that blocked
BlockLog(v) ==
  CASE v = "ipv6"    -> <<LogEntry("warn", "Blocked IPv6 leak", "ipv6")>>
    [] v = "webrtc"  -> <<LogEntry("warn", "Blocked WebRTC leak attempt", "webrtc")>>
    [] v = "tracker" -> <<LogEntry("warn", "Blocked tracker", "tracker")>>
    [] OTHER         -> <<>>

\* The log and the rest of the control variables are followed, the rest not
RequestLogOnly == UNCHANGED aside_vars

\* The accept loop logs the connection before it spawns the task
AcceptHttpLogged(s) ==
  /\ AcceptHttp(s, 1)
  /\ TaskLogs(<<LogEntry("info", "New connection from", "network")>>)

\* "Log all domains being accessed": one entry when the URI has a host
CountTotalLogged(t, host, path) ==
  /\ CountTotal(t, host, path)
  /\ TaskLogs(IF HttpHosts[host] = NoHost THEN <<>>
              ELSE <<LogEntry("info", "Request", "network")>>)

\* One rule of detect_security_risks: its update_stats and its entry
ThreatTaggedLogged(t) ==
  /\ ThreatTagged(t)
  /\ LET all == RiskLogsOf[tasks[t].host][tasks[t].path]
     IN  TaskLogs(<<all[Len(all) - tasks[t].risks + 1]>>)

\* The kill-switch branch logs before it counts
KillSwitchBlockedLogged(t) ==
  /\ KillSwitchBlocked(t)
  /\ TaskLogs(<<LogEntry("error", "Kill switch blocked request - Tor disconnected!", "security")>>)

\* The branch that blocks logs after it counts
FilterLogged(t) ==
  /\ Filter(t)
  /\ TaskLogs(BlockLog(VerdictOf[tasks[t].host]))

\* A response from Tor is logged; an error is not
RouteLogged(t, outcome) ==
  /\ Route(t, outcome)
  /\ TaskLogs(IF outcome = "ok"
                THEN <<LogEntry("info", "Routed through Tor (3 encrypted hops)", "network")>>
                ELSE <<>>)

PipelineLogged ==
  \/ \E s \in Sessions : AcceptHttpLogged(s) /\ RequestLogOnly
  \/ NextRequest(1) /\ TaskLogs(<<>>) /\ RequestLogOnly
  \/ Gate(1) /\ TaskLogs(<<>>) /\ RequestLogOnly
  \/ KillSwitchBlockedLogged(1) /\ RequestLogOnly
  \/ \E host \in DOMAIN HttpHosts, path \in DOMAIN HttpPaths :
       CountTotalLogged(1, host, path) /\ RequestLogOnly
  \/ ThreatTaggedLogged(1) /\ RequestLogOnly
  \/ FilterLogged(1) /\ RequestLogOnly
  \/ \E outcome \in RouteOutcomes : RouteLogged(1, outcome) /\ RequestLogOnly
  \/ TaskEnds(1) /\ TaskLogs(<<>>) /\ RequestLogOnly

\* KillSwitch::set_tor_status on the router's gate, so that requests meet
\* the gate open and shut
GateDriverLogged ==
  \E connected \in BOOLEAN :
    RouterSetTorStatus(1, connected) /\ TaskLogs(<<>>) /\ RequestLogOnly

NextRequestLog == PipelineLogged \/ GateDriverLogged

SpecRequestLog == InitRequestLog /\ [][NextRequestLog]_vars


(***************************************************************************)
(* The accept loop with its failures (proxy.rs:47-100): an accept that     *)
(* errs, a connection whose first bytes cannot be peeked, and every way a  *)
(* request or a tunnel fails, beside the calls that start and stop         *)
(* sessions.                                                               *)
(***************************************************************************)

\* An accept loop that hands the error of accept to its caller, as
\* "listener.accept().await?" would: run returns
AcceptFails_returns(s) ==
  /\ Listening(s)
  /\ nreq < MaxRequests
  /\ nreq' = nreq + 1
  /\ sup' = [sup EXCEPT ![s].pc = "post_run"]
  /\ UNCHANGED <<stats, ctl_ks, router_ks, proxy_handle, connected_time, tasks>>

\* "Err(e) => error!(...)": the loop logs the error of accept and goes
\* round again. nreq counts the turns of the loop the model follows.
AcceptFails(s) ==
  /\ Listening(s)
  /\ nreq < MaxRequests
  /\ nreq' = nreq + 1
  /\ UNCHANGED <<stats, ctl_ks, router_ks, proxy_handle, connected_time, sup, tasks>>

\* A connection is accepted and its task spawned, and stream.peek fails or
\* reads nothing: the task is at its "_ =>" arm
AcceptPeekFails(s, t) ==
  /\ Listening(s)
  /\ tasks[t].pc = "free"
  /\ \A u \in 1..(t - 1) : tasks[u].pc # "free"
  /\ nreq < MaxRequests
  /\ nreq' = nreq + 1
  /\ tasks' = [tasks EXCEPT ![t] = [FreeTask EXCEPT !.pc = "peek_failed", !.sess = s]]
  /\ UNCHANGED <<stats, ctl_ks, router_ks, proxy_handle, connected_time, sup>>

\* "Failed to peek stream data" is logged and the task ends
PeekFailed(t) ==
  /\ tasks[t].pc = "peek_failed"
  /\ tasks' = [tasks EXCEPT ![t] = FreeTask]
  /\ UNCHANGED <<stats, ctl_ks, router_ks, proxy_handle, connected_time, sup, nreq>>

AcceptingOrFailing ==
  \E s \in Sessions :
    \/ AcceptFails(s) /\ Untracked
    \/ \E t \in Tasks : AcceptPeekFails(s, t) /\ Untracked
    \/ \E t \in Tasks : AcceptHttp(s, t) /\ Untracked
    \/ \E t \in Tasks : AcceptConnect(s, t) /\ Untracked

NextAccept ==
  \/ Control
  \/ Supervisor
  \/ AcceptingOrFailing
  \/ Pipeline
  \/ \E t \in Tasks : PeekFailed(t) /\ Untracked

SpecAccept == InitData /\ [][NextAccept]_vars

(***************************************************************************)
(* route_request with the response apart from the counters: the           *)
(* update_stats of a branch that blocks, then the return of its 503 or    *)
(* 403, which handle_request hands to hyper to write (routing.rs:215-353, *)
(* proxy.rs:192-193). One session is listening and its gate is driven.    *)
(***************************************************************************)

\* A filter branch that returns its 403 first and counts afterwards
FilterCounted_respond_first(t) ==
  LET v == VerdictOf[tasks[t].host]
  IN  /\ tasks[t].pc = "filter"
      /\ tasks' = [tasks EXCEPT
           ![t].verdict = v,
           ![t].pc = IF v = "allowed" THEN "route" ELSE "respond",
           ![t].status = IF v = "allowed" THEN @ ELSE 403,
           ![t].body = BlockBody(v)]
      /\ UNCHANGED <<stats, ctl_ks, router_ks, proxy_handle, connected_time, sup, nreq>>

\* The kill-switch branch up to the end of its update_stats (230-233)
KillSwitchCounted(t) ==
  /\ tasks[t].pc = "ks_stats"
  /\ stats' = [stats EXCEPT !.requests_blocked = @ + 1,
                            !.security_threats_detected = @ + 1]
  /\ tasks' = [tasks EXCEPT ![t].pc = "respond",
                            ![t].inc.blocked = @ + 1, ![t].inc.threats = @ + 1]
  /\ UNCHANGED <<ctl_ks, router_ks, proxy_handle, connected_time, sup, nreq>>

\* The three filters in turn and, for the one that blocks, its update_stats
\* (286-289, 314-317, 342-345)
FilterCounted(t) ==
  LET v == VerdictOf[tasks[t].host]
  IN  /\ tasks[t].pc = "filter"
      /\ stats' = BlockStats(stats, v)
      /\ tasks' = [tasks EXCEPT
           ![t].verdict = v,
           ![t].pc = IF v = "allowed" THEN "route" ELSE "respond",
           ![t].inc.blocked = IF v = "allowed" THEN @ ELSE @ + 1,
           ![t].inc.ipv6 = IF v = "ipv6" THEN @ + 1 ELSE @,
           ![t].inc.webrtc = IF v = "webrtc" THEN @ + 1 ELSE @,
           ![t].inc.trackers = IF v = "tracker" THEN @ + 1 ELSE @]
      /\ UNCHANGED <<ctl_ks, router_ks, proxy_handle, connected_time, sup, nreq>>

\* "return Ok(Response::builder().status(..)...)" of the branch that
\* blocked: the 503 of the kill switch or the 403 of a filter
Responds(t) ==
  LET v == tasks[t].verdict
  IN  /\ tasks[t].pc = "respond"
      /\ tasks' = [tasks EXCEPT
           ![t].pc = "keepalive",
           ![t].status = IF v = "killswitch" THEN 503 ELSE 403,
           ![t].body = IF v = "killswitch" THEN BodyIndex(Body_unavailable)
                       ELSE BlockBody(v)]
      /\ UNCHANGED <<stats, ctl_ks, router_ks, proxy_handle, connected_time, sup, nreq>>

\* A connection task on the plain HTTP path, step by step
PipelineStepwise ==
  \E t \in Tasks :
    \/ \E s \in Sessions : AcceptHttp(s, t) /\ Untracked
    \/ NextRequest(t) /\ Untracked
    \/ Gate(t) /\ Untracked
    \/ KillSwitchCounted(t) /\ Untracked
    \/ \E host \in DOMAIN HttpHosts, path \in RootPaths : CountTotal(t, host, path) /\ Untracked
    \/ ThreatTagged(t) /\ Untracked
    \/ FilterCounted(t) /\ Untracked
    \/ Responds(t) /\ Untracked
    \/ \E outcome \in RouteOutcomes : Route(t, outcome) /\ Untracked
    \/ TaskEnds(t) /\ Untracked

NextRespond == GateDriver \/ PipelineStepwise

SpecRespond == InitRouter /\ [][NextRespond]_vars

(***************************************************************************)
(* toggle_kill_switch step by step (web_api.rs:240-247): set_enabled on    *)
(* the control plane's KillSwitch, then update_stats, with other calls of  *)
(* the control interface served between the two.                           *)
(***************************************************************************)

\* What the steps of a toggle_kill_switch leave alone
ToggleOnly ==
  /\ UNCHANGED ctl_vars
  /\ UNCHANGED <<filters, call, disc, now, since, reply, fingerprint, lk>>

\* "kill_switch.set_enabled(toggle.enabled).await"
ToggleSetEnabled(c, enabled) ==
  /\ toggle[c].pc = "idle"
  /\ \A b \in 1..(c - 1) : toggle[b].pc # "idle"
  /\ ctl_ks' = set_enabled(ctl_ks, enabled)
  /\ toggle' = [toggle EXCEPT ![c] = [pc |-> "update_stats", enabled |-> enabled]]
  /\ UNCHANGED <<stats, router_ks, proxy_handle, connected_time, sup, tasks, nreq>>

\* "state.update_stats(|s| s.kill_switch_active = toggle.enabled).await",
\* after which the call logs, reads Stats and returns
ToggleUpdateStats(c) ==
  /\ toggle[c].pc = "update_stats"
  /\ stats' = [stats EXCEPT !.kill_switch_active = toggle[c].enabled]
  /\ toggle' = [toggle EXCEPT ![c] = NoToggle]
  /\ UNCHANGED <<ctl_ks, router_ks, proxy_handle, connected_time, sup, tasks, nreq>>

\* The control interface with its toggle_kill_switch calls taken in two
\* steps, beside the calls that start and stop sessions
ControlToggling ==
  \/ \E c \in Calls, enabled \in BOOLEAN : ToggleSetEnabled(c, enabled) /\ ToggleOnly
  \/ \E c \in Calls : ToggleUpdateStats(c) /\ ToggleOnly
  \/ Connect /\ Untracked
  \/ Disconnect /\ Untracked

NextToggle == ControlToggling \/ Supervisor

SpecToggle == InitData /\ [][NextToggle]_vars

(***************************************************************************)
(* The locks of ApiState (web_api.rs:61-71): every handler and task is     *)
(* followed through the lock operations of its code, in their order.       *)
(* tokio's RwLock grants in the order of arrival: a read is not granted    *)
(* while a write waits. A guard held in the scrutinee of an "if let" or a  *)
(* "match" is kept to the end of that statement, a guard of a plain        *)
(* statement is dropped at its end.                                        *)
(***************************************************************************)

Locks ==
  {"stats", "connected_time", "total_connected_duration", "proxy_handle",
   "system_proxy", "logs"}

\* A guard taken and kept over the operations that follow
LockRead(l) == [op |-> "lock", lock |-> l, mode |-> "read"]

LockWrite(l) == [op |-> "lock", lock |-> l, mode |-> "write"]

\* The guard on l is dropped
Unlock(l) == [op |-> "unlock", lock |-> l, mode |-> "none"]

\* A guard taken and dropped within one statement that awaits nothing else
UseRead(l) == [op |-> "use", lock |-> l, mode |-> "read"]

UseWrite(l) == [op |-> "use", lock |-> l, mode |-> "write"]

\* JoinHandle::abort on the supervisor
AbortSupervisor == [op |-> "abort", lock |-> "none", mode |-> "none"]

\* An update_stats whose closure reads Stats through the lock again
update_stats_locks_reentrant ==
  <<LockWrite("stats"), UseRead("stats"), UseRead("connected_time"), Unlock("stats")>>

\* update_stats: the write guard of stats is kept while connected_time is
\* read
update_stats_locks ==
  <<LockWrite("stats"), UseRead("connected_time"), Unlock("stats")>>

\* add_log_with_details
add_log_locks == <<UseWrite("logs")>>

\* "state.stats.read().await.clone()", then the uptime from connected_time
read_stats_locks == <<UseRead("stats"), UseRead("connected_time")>>

get_stats_locks == read_stats_locks

toggle_kill_switch_locks == update_stats_locks \o add_log_locks \o read_stats_locks

change_exit_country_locks == update_stats_locks \o add_log_locks \o read_stats_locks

\* toggle_connection(connect = true), refused
connect_refused_locks ==
  <<UseRead("stats"), UseRead("proxy_handle")>> \o add_log_locks \o read_stats_locks

\* toggle_connection(connect = true) in an elevated process whose
\* SystemProxy::enable succeeds: the guard of system_proxy is kept over the
\* arm of the match
connect_locks ==
  <<UseRead("stats"), UseRead("proxy_handle")>>
  \o add_log_locks \o add_log_locks \o add_log_locks \o update_stats_locks
  \o <<LockWrite("system_proxy")>> \o add_log_locks \o update_stats_locks
  \o <<Unlock("system_proxy")>>
  \o <<UseWrite("proxy_handle")>> \o add_log_locks \o <<UseRead("stats")>>

\* toggle_connection(connect = false) in an elevated process with a handle
\* stored: the guard of proxy_handle is kept over the whole block
disconnect_locks ==
  add_log_locks
  \o <<LockWrite("system_proxy")>> \o add_log_locks \o update_stats_locks
  \o <<Unlock("system_proxy")>>
  \o <<LockWrite("proxy_handle"), UseWrite("connected_time"),
       UseWrite("total_connected_duration"), AbortSupervisor>>
  \o update_stats_locks \o add_log_locks
  \o <<Unlock("proxy_handle"), UseRead("stats")>>

\* The supervisor: after ProxyServer::new its three entries, the reset, the
\* two instants, "LIVE"; run returns; connected_time is taken with its
\* guard kept over total_connected_duration; the flags are cleared
supervisor_locks ==
  add_log_locks \o add_log_locks \o add_log_locks \o update_stats_locks
  \o <<UseWrite("connected_time"), UseWrite("total_connected_duration")>>
  \o add_log_locks
  \o <<LockWrite("connected_time"), UseWrite("total_connected_duration"),
       Unlock("connected_time")>>
  \o update_stats_locks \o add_log_locks

\* A connection task in route_request: total_requests and the request's
\* entry, a rule of detect_security_risks, a filter that blocks
route_request_locks ==
  update_stats_locks \o add_log_locks
  \o update_stats_locks \o add_log_locks
  \o update_stats_locks \o add_log_locks

ProgramNames ==
  {"get_stats", "toggle_kill_switch", "change_exit_country", "connect_refused",
   "connect", "disconnect", "supervisor", "route_request"}

Programs ==
  [p \in ProgramNames |->
     CASE p = "get_stats"           -> get_stats_locks
       [] p = "toggle_kill_switch"  -> toggle_kill_switch_locks
       [] p = "change_exit_country" -> change_exit_country_locks
       [] p = "connect_refused"     -> connect_refused_locks
       [] p = "connect"             -> connect_locks
       [] p = "disconnect"          -> disconnect_locks
       [] p = "supervisor"          -> supervisor_locks
       [] OTHER                     -> route_request_locks]

\* The guards kept after the first n operations of ops
RECURSIVE HeldAfter(_, _)
HeldAfter(ops, n) ==
  IF n = 0 THEN {}
  ELSE LET h == HeldAfter(ops, n - 1)
           o == ops[n]
       IN  CASE o.op = "lock"   -> h \cup {[lock |-> o.lock, mode |-> o.mode]}
             [] o.op = "unlock" -> {g \in h : g.lock # o.lock}
             [] OTHER           -> h

HeldTable ==
  [p \in ProgramNames |->
     [n \in 0..Len(Programs[p]) |-> HeldAfter(Programs[p], n)]]

\* The guards task a keeps
Held(a) == IF lk[a] = Resting THEN {} ELSE HeldTable[lk[a].prog][lk[a].at - 1]

\* The operation task a comes to next
NextOp(a) == Programs[lk[a].prog][lk[a].at]

\* Task a is at an operation that takes a lock
Wants(a) == lk[a] # Resting /\ NextOp(a).op \in {"lock", "use"}

\* Task b keeps a guard that the lock operation of a cannot share
Conflicts(a, b) ==
  /\ Wants(a)
  /\ \E g \in Held(b) :
       /\ g.lock = NextOp(a).lock
       /\ NextOp(a).mode = "write" \/ g.mode = "write"

\* Task a wants to read a lock for which b waits to write
BehindWriter(a, b) ==
  /\ Wants(a) /\ NextOp(a).mode = "read"
  /\ b # a
  /\ Wants(b) /\ NextOp(b).mode = "write" /\ NextOp(b).lock = NextOp(a).lock
  /\ \E c \in Actors : Conflicts(b, c)

\* The tasks a waits for
Blockers(a) == {b \in Actors : Conflicts(a, b) \/ BehindWriter(a, b)}

\* What the lock operations leave alone
LocksOnly ==
  /\ UNCHANGED <<stats, ctl_ks, router_ks, proxy_handle, connected_time, sup, tasks, nreq>>
  /\ UNCHANGED ctl_vars
  /\ UNCHANGED <<filters, call, disc, now, since, reply, fingerprint, toggle>>

\* A handler is called or a task spawned
StartProgram(a, p) ==
  /\ lk[a] = Resting
  /\ \A b \in 1..(a - 1) : lk[b] # Resting
  /\ lk' = [lk EXCEPT ![a] = [prog |-> p, at |-> 1]]

\* Task a past its next operation
Advanced(a) ==
  IF lk[a].at = Len(Programs[lk[a].prog]) THEN Resting
  ELSE [lk[a] EXCEPT !.at = @ + 1]

\* Task a carries out its next lock operation, which is granted
LockStep(a) ==
  /\ lk[a] # Resting
  /\ NextOp(a).op # "abort"
  /\ Blockers(a) = {}
  /\ lk' = [lk EXCEPT ![a] = Advanced(a)]

\* handle.abort(): the supervisor, if one runs, is cancelled where it waits
\* and its guards are dropped
AbortStep(a, b) ==
  /\ lk[a] # Resting
  /\ NextOp(a).op = "abort"
  /\ b # 0 => lk[b].prog = "supervisor"
  /\ lk' = [c \in Actors |-> IF c = a THEN Advanced(a)
                             ELSE IF c = b THEN Resting ELSE lk[c]]

NextLocks ==
  \E a \in Actors :
    \/ \E p \in ProgramNames : StartProgram(a, p) /\ LocksOnly
    \/ LockStep(a) /\ LocksOnly
    \/ \E b \in Actors \cup {0} : AbortStep(a, b) /\ LocksOnly

SpecLocks == InitData /\ [][NextLocks]_vars
(***************************************************************************)
(* Properties.                                                             *)
(***************************************************************************)

\* A connection task between the arrival of a request and its response (or
\* the end of its tunnel)
InFlight(t) == tasks[t].pc \notin {"free", "keepalive", "c_closed"}

Quiescent == \A t \in Tasks : ~InFlight(t)

\* What each filter says of each host the model's plain HTTP requests name
Ipv6Matches == [h \in DOMAIN HttpHosts |-> should_block_ipv6(ipv6_enabled, HttpHosts[h])]

WebrtcMatches ==
  [h \in DOMAIN HttpHosts |-> should_block_request(webrtc_enabled, HttpHosts[h], DefaultPort)]

TrackerMatches == [h \in DOMAIN HttpHosts |-> should_block(HttpHosts[h])]

\* The verdict the ordered chain IPv6, WebRTC, tracker owes a host and port
ChainVerdict(host, port) ==
  IF should_block_ipv6(ipv6_enabled, host) THEN "ipv6"
  ELSE IF should_block_request(webrtc_enabled, host, port) THEN "webrtc"
  ELSE IF should_block(host) THEN "tracker"
  ELSE "allowed"

HttpChainVerdict ==
  [h \in DOMAIN HttpHosts |->
     IF HttpHosts[h] = NoHost THEN "allowed" ELSE ChainVerdict(HttpHosts[h], DefaultPort)]

\* The same for the targets of the model's CONNECT requests that name a
\* host and a port
ConnectChainVerdict ==
  [g \in DOMAIN ConnectTargets |->
     IF TargetParsesOf[g]
       THEN ChainVerdict(TargetHost(ConnectTargets[g]),
                         DecimalValue(Split(ConnectTargets[g], ":")[2]))
       ELSE "none"]

\* The counters a request with verdict v owes the three filters
OwedInc(t, v) ==
  /\ tasks[t].inc.ipv6 = (IF v = "ipv6" THEN 1 ELSE 0)
  /\ tasks[t].inc.webrtc = (IF v = "webrtc" THEN 1 ELSE 0)
  /\ tasks[t].inc.trackers = (IF v = "tracker" THEN 1 ELSE 0)

\* The gate of the router a task holds
GateOf(t) == router_ks[tasks[t].sess]

Denying(ks) == ks.kill_switch_active /\ ~ks.tor_connected

C2_SingleSourceOfTruth ==
  \A s \in Sessions :
    Listening(s) => router_ks[s].kill_switch_active = ctl_ks.kill_switch_active

\* C3: should_allow_traffic, as route_request calls it, returns true iff
\* not kill_switch_active or tor_connected; it adds 1 to blocked_requests
\* when it returns false and nothing when it returns true; it leaves both
\* flags alone.
C3_ShouldAllowTraffic ==
  [][\A t \in Tasks :
       (tasks[t].pc = "gate" /\ tasks'[t].pc # "gate") =>
         LET before  == router_ks[tasks[t].sess]
             after   == router_ks'[tasks[t].sess]
             allowed == tasks'[t].pc = "total"
         IN  /\ allowed <=> (~before.kill_switch_active \/ before.tor_connected)
             /\ after.blocked_requests =
                  before.blocked_requests + (IF allowed THEN 0 ELSE 1)
             /\ after.kill_switch_active = before.kill_switch_active
             /\ after.tor_connected = before.tor_connected]_vars

\* C3 witness: the gate has denied one request and allowed another
C3_Witness ==
  \E t, u \in Tasks :
    /\ tasks[t].pc = "ks_stats"
    /\ tasks[u].pc = "total"
    /\ GateOf(t).blocked_requests = 1

Prefix_unavailable ==
  <<"S","e","r","v","i","c","e"," ","u","n","a","v","a","i","l","a","b","l","e">>

\* C4: a plain HTTP request the gate denied is answered 503 with a body that
\* starts with "Service unavailable"; it adds exactly 1 to requests_blocked
\* and to security_threats_detected and nothing to the other counters, no
\* filter has judged it and no stream was opened for it.
C4_GateDenial ==
  [][\A t \in Tasks :
       (tasks[t].pc = "ks_stats" /\ tasks'[t].pc # "ks_stats") =>
         /\ tasks'[t].status = 503
         /\ tasks'[t].body \in DOMAIN ResponseBodies
         /\ StartsWith(ResponseBodies[tasks'[t].body], Prefix_unavailable)
         /\ stats' = [stats EXCEPT !.requests_blocked = @ + 1,
                                   !.security_threats_detected = @ + 1]
         /\ tasks'[t].inc = [NoInc EXCEPT !.blocked = 1, !.threats = 1]
         /\ tasks'[t].host = 0
         /\ ~tasks'[t].opened
         /\ tasks'[t].pc = "keepalive"]_vars

\* C4 witness: a request got the 503 of the kill-switch branch
C4_Witness ==
  \E t \in Tasks : tasks[t].pc = "keepalive" /\ tasks[t].status = 503

\* C5: requests_blocked never exceeds total_requests.
C5_BlockedWithinTotal == stats.requests_blocked <= stats.total_requests

\* C6: in every Stats a reader can snapshot, requests_blocked is at least
\* trackers_blocked + webrtc_blocked + ipv6_blocked.
C6_BlockDecomposition ==
  stats.requests_blocked >=
    stats.trackers_blocked + stats.webrtc_blocked + stats.ipv6_blocked

\* C6 witness: a filter has blocked in a second session while a task the
\* first session spawned is still about to run its filters
C6_Witness ==
  /\ stats.trackers_blocked + stats.webrtc_blocked + stats.ipv6_blocked > 0
  /\ \E s \in Sessions : s > 1 /\ Listening(s)
  /\ \E t \in Tasks : tasks[t].sess = 1 /\ tasks[t].pc = "filter"

\* C7: with no request in flight, requests_blocked is trackers_blocked +
\* webrtc_blocked + ipv6_blocked plus the denials the session's gate counted
\* in blocked_requests.
C7_QuiescentDecomposition ==
  Quiescent =>
    stats.requests_blocked =
      stats.trackers_blocked + stats.webrtc_blocked + stats.ipv6_blocked
        + router_ks[proxy_handle].blocked_requests

\* C7 witness: nothing in flight after one denial and one filter block
C7_Witness ==
  /\ Quiescent
  /\ router_ks[proxy_handle].blocked_requests = 1
  /\ stats.trackers_blocked + stats.webrtc_blocked + stats.ipv6_blocked = 1

\* C8: every request, plain HTTP or CONNECT, that got past the gate is judged
\* by IPv6, WebRTC, tracker in that order, the first match deciding: once it
\* is decided it has added 1 to the counter of that verdict and nothing to
\* the other two, and only an allowed request has a stream opened.
C8_FilterTotalityAndOrder ==
  \A t \in Tasks :
    /\ (tasks[t].pc \in {"route", "keepalive"} /\ tasks[t].host # 0) =>
         /\ OwedInc(t, HttpChainVerdict[tasks[t].host])
         /\ tasks[t].opened => HttpChainVerdict[tasks[t].host] = "allowed"
    /\ (tasks[t].pc \in {"c_reply", "tunnel"}) =>
         /\ OwedInc(t, ConnectChainVerdict[tasks[t].host])
         /\ tasks[t].opened => ConnectChainVerdict[tasks[t].host] = "allowed"

C10_ConnectFiltered ==
  \A t \in Tasks :
    (/\ tasks[t].pc \in {"c_reply", "tunnel", "c_closed"}
     /\ tasks[t].host # 0
     /\ ConnectChainVerdict[tasks[t].host] \in {"ipv6", "webrtc", "tracker"}) =>
       /\ ~tasks[t].opened
       /\ ~tasks[t].sent200
       /\ OwedInc(t, ConnectChainVerdict[tasks[t].host])


\* C11: a CONNECT to the bracketed IPv6 authority [2001:db8::1]:443 is
\* refused without a stream or a 200, and has added 1 to ipv6_blocked.
C11_ConnectIpv6Refused ==
  \A t \in Tasks :
    (/\ tasks[t].pc = "c_closed"
     /\ tasks[t].host # 0
     /\ ConnectTargets[tasks[t].host] = T_ipv6) =>
       /\ ~tasks[t].opened
       /\ ~tasks[t].sent200
       /\ tasks[t].inc.ipv6 = 1

\* The six counters a session starts from
SessionCounters ==
  <<stats.total_requests, stats.requests_blocked, stats.trackers_blocked,
    stats.webrtc_blocked, stats.ipv6_blocked, stats.security_threats_detected>>

\* C12: once a later session has reset the counters and until its listener
\* accepts its first connection, all six counters read 0, whatever tasks of
\* the previous session are still running.
C12_SessionReset ==
  \A s \in Sessions :
    (s > 1 /\ sup[s].pc \in {"conn_time", "bind"}) =>
      SessionCounters = <<0, 0, 0, 0, 0, 0>>

\* C17: a plain HTTP request whose routing failed is answered 502.
C17_RoutingFailure502 ==
  \A t \in Tasks :
    (tasks[t].pc = "keepalive" /\ tasks[t].body = BodyIndex(Body_error)) =>
      tasks[t].status = 502

\* C18: on the CONNECT path the 200 is written only to a client whose stream
\* was opened before; a task whose stream could not be opened ends there,
\* with nothing written to its client.
C18_ReplyAfterOpen ==
  [][\A t \in Tasks :
       /\ (~tasks[t].sent200 /\ tasks'[t].sent200) =>
            tasks[t].pc = "c_reply" /\ tasks[t].opened
       /\ (tasks[t].pc = "c_open" /\ tasks'[t].pc # "c_open" /\ ~tasks'[t].opened) =>
            /\ tasks'[t].pc = "c_closed"
            /\ ~tasks'[t].sent200
            /\ tasks'[t].status = 0
       /\ (tasks[t].pc = "c_closed" /\ tasks'[t].pc # "c_closed") =>
            tasks'[t] = FreeTask]_vars

\* C18 witness: one tunnel got its 200 after its stream was opened, and a
\* CONNECT whose stream could not be opened has ended unanswered
C18_Witness ==
  \E t, u \in Tasks :
    /\ tasks[t].pc = "tunnel" /\ tasks[t].opened /\ tasks[t].sent200
    /\ tasks[u].pc = "c_closed" /\ tasks[u].host # 0 /\ TargetParsesOf[tasks[u].host]
    /\ ~tasks[u].opened /\ ~tasks[u].sent200

\* C19: a tunnel is up only while neither of its two copies has completed or
\* failed; the completion of either ends it at once, the other copy being
\* dropped, and the task of a tunnel that has ended finishes.
C19_TunnelFirstCompletion ==
  /\ [](\A t \in Tasks :
          /\ tasks[t].pc = "tunnel" => tasks[t].closed_by = "none"
          /\ tasks[t].closed_by # "none" => tasks[t].pc = "c_closed" /\ tasks[t].sent200)
  /\ \A t \in Tasks : (tasks[t].closed_by # "none") ~> (tasks[t].pc = "free")

\* C19 witness: a tunnel ended by its circuit-to-client copy while another
\* tunnel is still up
C19_Witness ==
  \E t, u \in Tasks :
    /\ tasks[t].pc = "c_closed" /\ tasks[t].closed_by = "tor_to_client"
    /\ tasks[u].pc = "tunnel"

\* A session between its reset and its end
Connected(sv) == sv.pc \in {"conn_time", "bind", "accept"}

\* C13: in a step that leaves a session connected (so the step is neither
\* its reset nor the set_connection(false) that ends it), none of the six
\* counters decreases.
C13_CounterMonotonicity ==
  [][(\E s \in Sessions : Connected(sup[s]) /\ Connected(sup'[s])) =>
       \A i \in 1..6 : SessionCounters'[i] >= SessionCounters[i]]_vars

\* C14: the buffer never holds more than 2000 entries, and it is the last
\* min(n, 2000) of the n entries appended so far, in the order they were
\* appended.
C14_LogBound ==
  LET n    == Len(appended)
      kept == IF n < LogCap THEN n ELSE LogCap
  IN  /\ Len(logs) <= LogCap
      /\ logs = SubSeq(appended, n - kept + 1, n)

\* C14 witness: two entries were appended to a full buffer
C14_Witness == Len(appended) = LogCap + 2 /\ Len(logs) = LogCap

\* The last entry of the buffer
LastLog == logs[Len(logs)]

AlreadyConnected == LogEntry("warn", "Already connected or connecting...", "general")

\* C15: a set_connection(true) made while the handle of an earlier one is
\* stored starts no supervisor, leaves Stats, connected_time and the handle
\* as they are, and appends one entry, the warning.
C15_SecondConnect ==
  [][((\E ok \in BOOLEAN : toggle_connection_connect(ok)) /\ proxy_handle # 0) =>
       /\ sup' = sup
       /\ stats' = stats
       /\ connected_time' = connected_time
       /\ proxy_handle' = proxy_handle
       /\ appended' = Append(appended, AlreadyConnected)
       /\ logs' = Append(logs, AlreadyConnected)]_vars

\* C15 witness: a second set_connection(true) was just answered with the
\* warning while the session of the first is connected
C15_Witness ==
  /\ LastLog = AlreadyConnected
  /\ proxy_handle # 0
  /\ Connected(sup[proxy_handle])
  /\ connected_time

\* C16: a set_kill_switch(x) that follows a set_kill_switch(x) leaves the
\* gate of the control plane, Stats and the log buffer as the first left
\* them.
C16_KillSwitchIdempotent ==
  [][\A x \in BOOLEAN :
       (toggle_kill_switch(x) /\ LastLog = KillSwitchLog(x)) =>
         /\ ctl_ks' = ctl_ks
         /\ stats' = stats
         /\ logs' = logs]_vars

\* What a shutdown has carried out before its i-th operation
DoneBefore(i) == {proc.done[j] : j \in 1..(i - 1)}

H_google == <<"g","o","o","g","l","e",".","c","o","m">>

\* The characters of a DNS name
DnsChars ==
  {UpperCase[k] : k \in 1..26} \cup {LowerCase[k] : k \in 1..26} \cup Digits \cup {"-", "."}

\* A DNS name: non-empty labels of letters, digits and hyphens, the last one
\* not a number
IsDnsName(s) ==
  /\ Len(s) > 0
  /\ \A i \in 1..Len(s) : s[i] \in DnsChars
  /\ LET labels == Split(s, ".")
     IN  /\ \A i \in 1..Len(labels) : Len(labels[i]) > 0
         /\ ~IsDecimal(labels[Len(labels)])

\* The bracketed authority form: a leading '[' and a ':' somewhere
Bracketed(s) == Len(s) > 0 /\ s[1] = "[" /\ \E i \in 1..Len(s) : s[i] = ":"

\* s ends with "." followed by d
IsSubdomainOf(s, d) ==
  /\ Len(s) > Len(d) + 1
  /\ SubSeq(s, Len(s) - Len(d) + 1, Len(s)) = d
  /\ s[Len(s) - Len(d)] = "."

\* C24: with the protection enabled, should_block_ipv6(host) is true exactly
\* when host parses as an IPv6 address or is in the bracketed form; it is
\* false for every IPv4 literal and every DNS name; with the protection
\* disabled it is false for every host.
C24_Ipv6Filter ==
  call.fn = "should_block_ipv6" =>
    /\ filters.ipv6.enabled =>
         (call.result <=> (ParsesAsIpv6(call.host) \/ Bracketed(call.host)))
    /\ (ParsesAsIpv4(call.host) \/ IsDnsName(call.host)) => ~call.result
    /\ ~filters.ipv6.enabled => ~call.result

\* An enabled filter blocked a bracketed host that is not an IPv6 address
C24_Witness ==
  /\ call.fn = "should_block_ipv6"
  /\ filters.ipv6.enabled
  /\ call.result
  /\ ~ParsesAsIpv6(call.host)
  /\ Bracketed(call.host)

\* C25: with the protection enabled, should_block_request(host, port) is
\* true exactly when host contains a listed STUN server name or parses as an
\* IP literal, whatever the port; example.com and google.com are allowed.
C25_WebrtcFilter ==
  (call.fn = "should_block_request" /\ filters.webrtc.enabled) =>
    /\ call.result <=>
         \/ \E k \in DOMAIN stun_servers : Contains(call.host, stun_servers[k])
         \/ ParsesAsIpv4(call.host)
         \/ ParsesAsIpv6(call.host)
    /\ call.host \in {H_example, H_google} => ~call.result

\* An enabled filter blocked a STUN server name on a port that is not a STUN port
C25_Witness ==
  /\ call.fn = "should_block_request"
  /\ filters.webrtc.enabled
  /\ call.result
  /\ call.port = 443
  /\ call.host = H_stun

\* C26: should_block(host) is true exactly when host is a blocked domain, or
\* ends with "." and a blocked domain, or its lowercased text contains a
\* heuristic substring; every subdomain of a blocked domain is blocked, and
\* google.com and example.com are not.
C26_TrackerMatching ==
  call.fn = "should_block" =>
    /\ call.result <=>
         \/ call.host \in blocked_domains
         \/ \E d \in blocked_domains : IsSubdomainOf(call.host, d)
         \/ \E k \in DOMAIN tracking_substrings :
              Contains(ToLower(call.host), tracking_substrings[k])
    /\ call.host \in Subdomains => call.result
    /\ call.host \in {H_example, H_google} => ~call.result

\* A subdomain of a blocked domain was blocked though it holds no heuristic substring
C26_Witness ==
  /\ call.fn = "should_block"
  /\ call.result
  /\ call.host \in Subdomains
  /\ call.host \notin blocked_domains
  /\ \A k \in DOMAIN tracking_substrings :
       ~Contains(ToLower(call.host), tracking_substrings[k])

(***************************************************************************)
(* The start of a session.                                                 *)
(***************************************************************************)

\* The supervisor's run() returned: the bind failed (the accept loop itself
\* never returns)
BindFailed(sv) == sv.pc \in {"post_run", "post_stats"}

\* C22: when the bind of the listener fails, Stats does not show
\* proxy_running or tor_connected for that attempt, and by the end of the
\* attempt an error-level entry has been logged.
C22_BindFailureSurfaced ==
  /\ [](\A s \in Sessions :
          BindFailed(sup[s]) => ~stats.proxy_running /\ ~stats.tor_connected)
  /\ [][\A s \in Sessions :
          (BindFailed(sup[s]) /\ sup'[s].pc = "ended" /\ proxy_handle' = s) =>
            \E i \in DOMAIN appended' : appended'[i].level = "error"]_vars

\* C28: once the supervisor of a session has been aborted, no connection task
\* of that session takes a further step (none reads or writes a stream,
\* updates Stats or logs): each stays where it was or is gone.
C28_AbortCancelsDescendants ==
  [][\A t \in Tasks :
       (tasks[t].pc # "free" /\ sup[tasks[t].sess].pc = "ended") =>
         (tasks'[t] = tasks[t] \/ tasks'[t] = FreeTask)]_vars

\* C29: once a set_connection(false) that found a session has returned and
\* that session's supervisor has ended, and no later call has started,
\* connected_time is None and proxy_running and tor_connected are false.
C29_DisconnectClears ==
  (/\ disc.pc = "idle"
   /\ disc.returned # 0
   /\ proxy_handle = 0
   /\ \A s \in Sessions : sup[s].pc \in {"unborn", "ended"}) =>
    /\ ~connected_time
    /\ ~stats.proxy_running
    /\ ~stats.tor_connected

\* C30: a step of the disconnect that waits for a lock (of connected_time or
\* of stats) is taken holding no lock.
C30_NoLockAcrossAwait ==
  [][(DisconnectClear \/ DisconnectStats \/ DisconnectReturn) => disc.held = {}]_vars

\* C21: a Stats value returned while the proxy is disconnected has
\* uptime_seconds = 0, and one returned while it is connected has
\* uptime_seconds equal to the time since connected_time was set.
C21_Uptime ==
  reply.handler # "none" =>
    /\ (~reply.proxy_running /\ ~reply.connected) => reply.uptime_seconds = 0
    /\ (reply.proxy_running /\ reply.connected) =>
         reply.uptime_seconds = reply.at - reply.since

FirstRequestLogs == SubSeq(appended, Len(StartupLogs) + 2, Len(appended))

\* C27: a plain HTTP request that the tracker filter blocked has appended
\* exactly two entries: one info entry of category network and one warn
\* entry of category tracker.
C27_TrackerBlockLogs ==
  (nreq = 1 /\ tasks[1].pc = "keepalive" /\ tasks[1].verdict = "tracker") =>
    /\ Len(FirstRequestLogs) = 2
    /\ FirstRequestLogs[1].level = "info" /\ FirstRequestLogs[1].category = "network"
    /\ FirstRequestLogs[2].level = "warn" /\ FirstRequestLogs[2].category = "tracker"

\* A connection task of session s stands where a failure left it: the peek
\* failed, a CONNECT was malformed or its stream could not be opened, the
\* routing failed, or a copy of a tunnel ended
FailedIn(s) ==
  \E t \in Tasks :
    /\ tasks[t].sess = s
    /\ \/ tasks[t].pc = "peek_failed"
       \/ tasks[t].pc = "c_closed"
       \/ tasks[t].pc = "keepalive" /\ tasks[t].body = BodyIndex(Body_error)

\* C31: error confinement. A supervisor whose listener is bound stays in its
\* accept loop over every step - a failed accept, a failed peek, a failed
\* request or tunnel - except the step of toggle_connection(false) that
\* aborts it through its stored handle; and run returns to the supervisor
\* from nowhere but a failed bind.
C31_ErrorConfinement ==
  [][\A s \in Sessions :
       /\ (Listening(s) /\ sup'[s].pc # "accept")
            => (proxy_handle = s /\ proxy_handle' = 0 /\ sup'[s].pc = "ended")
       /\ (sup[s].pc # "post_run" /\ sup'[s].pc = "post_run")
            => sup[s].pc = "bind"]_vars

\* A supervisor is accepting while one of its connections has just failed
\* and the loop has gone round MaxRequests times
C31_Witness ==
  \E s \in Sessions : Listening(s) /\ FailedIn(s) /\ nreq = MaxRequests

\* The steps a plain HTTP request may take from each point of
\* route_request: the gate, then the count and the threat tagging, then the
\* filters, then the transport, then the response
StepsAfter(pc) ==
  CASE pc = "gate"     -> {"total", "ks_stats"}
    [] pc = "ks_stats" -> {"respond"}
    [] pc = "total"    -> {"risks", "filter", "route"}
    [] pc = "risks"    -> {"risks", "filter"}
    [] pc = "filter"   -> {"route", "respond"}
    [] pc = "route"    -> {"keepalive"}
    [] pc = "respond"  -> {"keepalive"}
    [] OTHER           -> {"free", "gate"}

\* What the update_stats of the branch with verdict v has added, as the
\* task's own record of it
CountedFor(v, inc) ==
  /\ inc.blocked = 1
  /\ v = "killswitch" => inc.threats = 1
  /\ v = "ipv6" => inc.ipv6 = 1
  /\ v = "webrtc" => inc.webrtc = 1
  /\ v = "tracker" => inc.trackers = 1

\* C32: a plain HTTP request goes gate -> filters -> route -> respond and
\* never back, and the step that hands back a 503 or a 403 finds the
\* counters of the block already added to Stats and adds nothing itself.
C32_CountedBeforeResponse ==
  [][\A t \in Tasks :
       /\ tasks'[t] # tasks[t] => tasks'[t].pc \in StepsAfter(tasks[t].pc)
       /\ (tasks[t].status = 0 /\ tasks'[t].status \in {403, 503})
            => /\ tasks[t].pc = "respond"
               /\ CountedFor(tasks[t].verdict, tasks[t].inc)
               /\ stats' = stats
               /\ tasks'[t].inc = tasks[t].inc]_vars

\* Both kinds of response have been handed back with their counters in
\* Stats: a 503 of the kill switch and a 403 of a filter
C32_Witness ==
  /\ \E t \in Tasks : tasks[t].status = 503 /\ tasks[t].pc = "keepalive"
  /\ \E t \in Tasks : tasks[t].status = 403 /\ tasks[t].pc = "keepalive"
  /\ stats.requests_blocked = 2

\* The rules of detect_security_risks that match the request of task t
MatchingRules(t) ==
  detect_security_risks(HttpHosts[tasks[t].host], HttpPaths[tasks[t].path])

\* C33, each rule: a step of detect_security_risks adds one to
\* security_threats_detected and to nothing else in Stats, appends one entry
\* of category "security", and leaves the task's verdict as it was; the
\* filters then give the verdict they give for the host alone.
C33_TaggingStep ==
  [][\A t \in Tasks :
       /\ (tasks[t].pc = "risks" /\ tasks'[t] # tasks[t])
            => /\ stats' = [stats EXCEPT !.security_threats_detected = @ + 1]
               /\ Len(appended') = Len(appended) + 1
               /\ appended'[Len(appended')].category = "security"
               /\ tasks'[t].verdict = tasks[t].verdict
               /\ tasks'[t].risks = tasks[t].risks - 1
       /\ (tasks[t].pc = "total" /\ tasks'[t].pc # "total")
            => tasks'[t].risks = (IF HttpHosts[tasks'[t].host] = NoHost
                                    THEN 0 ELSE detect_security_risks(
                                           HttpHosts[tasks'[t].host],
                                           HttpPaths[tasks'[t].path]))
       /\ (tasks[t].pc = "filter" /\ tasks'[t].pc # "filter")
            => tasks'[t].verdict = FilterVerdict(HttpHosts[tasks[t].host], DefaultPort)]_vars

\* C33, the whole call: when detect_security_risks has returned, the log
\* ends with the entry of the request followed by exactly one "security"
\* entry per matching rule, and no rule is left to count.
C33_TaggingDone ==
  \A t \in Tasks :
    tasks[t].pc = "filter"
      => LET n == MatchingRules(t)
             L == Len(appended)
         IN  /\ tasks[t].risks = 0
             /\ \A i \in (L - n + 1)..L : appended[i].category = "security"
             /\ appended[L - n] = LogEntry("info", "Request", "network")

\* C33: threat tagging counts and logs once per matching rule, touches no
\* other counter and does not change what the filters decide.
C33_ThreatTagging == []C33_TaggingDone /\ C33_TaggingStep

\* A request that matched a rule was tagged and then allowed by the filters
\* and routed, with no block counted
C33_Witness ==
  \E t \in Tasks :
    /\ tasks[t].pc = "keepalive"
    /\ tasks[t].verdict = "allowed"
    /\ tasks[t].status = 200
    /\ HttpHosts[tasks[t].host] # NoHost
    /\ MatchingRules(t) >= 1
    /\ stats.security_threats_detected >= MatchingRules(t)
    /\ stats.requests_blocked = 0

\* No toggle_kill_switch call is between its first step and its return
NoToggleInFlight == \A c \in Calls : toggle[c] = NoToggle

\* C34: whenever no set_kill_switch call is in progress,
\* Stats.kill_switch_active equals the active flag of the control plane's
\* KillSwitch - before any toggle, after each, and after concurrent ones.
C34_KillSwitchMirrored ==
  NoToggleInFlight => stats.kill_switch_active = ctl_ks.kill_switch_active

\* The supervisor tasks that exist: spawned and neither returned nor aborted
LiveSupervisors == {s \in Sessions : sup[s].pc \notin {"unborn", "ended"}}

\* C35: at most one supervisor task exists at any time, also when
\* set_connection(true) calls run concurrently, and a supervisor that exists
\* is the one whose handle is stored or about to be stored.
C35_OneSupervisor ==
  /\ Cardinality(LiveSupervisors) <= 1
  /\ \A s \in LiveSupervisors :
       proxy_handle = s \/ \E c \in Calls : conn[c].pc = "store" /\ conn[c].sess = s

\* A supervisor that is starting up, listening, or clearing up after run
\* returned
StartingOrListening(sv) ==
  sv.pc \in {"new", "reset", "conn_time", "bind", "accept", "post_run", "post_stats"}

\* C36: while the process runs and the session set_connection(true) started
\* has not been stopped, an OS proxy setting that points at the proxy has a
\* supervisor behind it that is starting, listening or clearing up: a failed
\* Tor bootstrap or bind does not leave the setting enabled with no listener.
C36_NoDeadSystemProxy ==
  (proc.pc = "running" /\ system_proxy.enabled /\ proxy_handle # 0)
    => StartingOrListening(sup[proxy_handle])

\* The supervisor whose handle is stored has ended without being aborted:
\* ProxyServer::new failed, or run returned and the clean-up is done
EndedOnItsOwn == proxy_handle # 0 /\ sup[proxy_handle].pc = "ended"

\* C37: a set_connection(true) that arrives after the supervisor has ended
\* on its own, with no set_connection(false) in between, spawns a new
\* supervisor instead of being refused.
C37_ConnectAfterFailedStart ==
  [][\A ok \in BOOLEAN :
       (EndedOnItsOwn /\ toggle_connection_connect(ok))
         => \E s \in Sessions : sup[s].pc = "unborn" /\ sup'[s].pc = "new"]_vars

\* A set of tasks each of which waits for a lock and, for it, on a task of
\* the set: none of them is ever granted its lock
WaitForEver(D) ==
  /\ D # {}
  /\ \A a \in D : Wants(a) /\ Blockers(a) \cap D # {}

\* C38: no interleaving of the handlers of the control interface, the
\* supervisor and the connection tasks reaches a state where tasks wait on
\* each other's locks for ever.
C38_NoDeadlock == \A D \in SUBSET Actors : ~WaitForEver(D)

\* A task keeps two guards, one inside the other, while another task waits
\* for one of them and a third is behind that
C38_Witness ==
  \E a, b, c \in Actors :
    /\ a # b /\ b # c /\ a # c
    /\ Cardinality(Held(a)) >= 2
    /\ Conflicts(b, a)
    /\ Blockers(c) # {}

\* The plain HTTP request of task t has been through TorNetwork::route_request
\* and a stream was opened for it
StreamOpened(t) == tasks[t].pc = "keepalive" /\ tasks[t].opened

\* C39: a stream is opened for a plain HTTP request only if its URI has a
\* host and none of the IPv6, WebRTC and tracker filters blocks that host;
\* a request without host, which skips the filters, gets no stream.
C39_NoUnfilteredRoute ==
  \A t \in Tasks :
    StreamOpened(t)
      => LET host == HttpHosts[tasks[t].host]
         IN  /\ host # NoHost
             /\ ~should_block_ipv6(ipv6_enabled, host)
             /\ ~should_block_request(webrtc_enabled, host, DefaultPort)
             /\ ~should_block(host)

\* One request was routed with a stream opened, and one without host has
\* been answered with the error body and no stream
C39_Witness ==
  \E t, u \in Tasks :
    /\ StreamOpened(t)
    /\ tasks[u].pc = "keepalive" /\ ~tasks[u].opened
    /\ tasks[u].verdict = "allowed"
    /\ HttpHosts[tasks[u].host] = NoHost
    /\ tasks[u].body = BodyIndex(Body_error)

(***************************************************************************)
(* toggle_connection(connect = false) while no handle is stored.           *)
(***************************************************************************)

\* A call of toggle_connection(connect = false) that finds no handle
DisconnectWithoutHandle ==
  proxy_handle = 0 /\ \E ok \in BOOLEAN : toggle_connection_disconnect(ok)

\* The entries of logs' that the step appended
AppendedNow ==
  SubSeq(appended', Len(appended) + 1, Len(appended'))

\* C40: toggle_connection(connect = false) with no supervisor handle stored
\* leaves every Stats field, auto_proxy_enabled among them, connected_time and
\* both kill-switch gates as they were, and it appends a warning entry.
C40_DisconnectWithoutHandle ==
  [][DisconnectWithoutHandle =>
       /\ stats' = stats
       /\ system_proxy'.auto_proxy_enabled = system_proxy.auto_proxy_enabled
       /\ connected_time' = connected_time
       /\ ctl_ks' = ctl_ks /\ router_ks' = router_ks
       /\ \E i \in DOMAIN AppendedNow : AppendedNow[i].level = "warn"]_vars
====
